---- MODULE Spec2Model ----
(***************************************************************************)
(* Trivia.NET server (src/server.py): the round state machine of main(),   *)
(* its receive path recv_json(), its send path send_json(), and the peers  *)
(* as an environment that writes to and closes the sockets.                *)
(*                                                                         *)
(* The server is one sequential process.  It is cut into steps at the      *)
(* points where the outside world can be observed: each select(), each     *)
(* recv() and each reading of the clock.  Between two such points the code *)
(* runs as one action.                                                     *)
(*                                                                         *)
(* Spec is the game.  The helper computations are also checked on their    *)
(* own, over all their inputs up to a bound: SpecRank (the leaderboard and *)
(* final standings of a roster), SpecJudge (the judging of one ANSWER),     *)
(* SpecMath (solve_math), SpecRoman (the Roman numerals), SpecSubnet (the  *)
(* two subnet answers) and SpecAuto (the auto-mode client of src/client.py *)
(* against the server's evaluator).  SpecEndToEnd is the game with one     *)
(* timely correct answer, SpecLive the game with a server that keeps       *)
(* running, SpecClients the game whose peers run client.py in auto mode.   *)
(***************************************************************************)
EXTENDS Naturals, Integers, Sequences, FiniteSets, TLC

(* ---------------- bounds of the model ---------------- *)

\* cfg["players"]: the quota of the handshake phase
NumPlayers == 2
\* len(cfg["question_types"]): the number of configured rounds
NumRounds == 2
\* how many pieces of data the peers write to their sockets in a game, all together
MaxSend == 2
\* how many connections the lobby turns away before the model stops offering them
MaxRejects == 1
\* distinct canonical answers a generated question can have
NumAnswers == 2
\* the longest roster the ranking is applied to on its own
RosterSize == 3
\* the highest score in such a roster
MaxScore == 2
\* the longest submitted answer the judge is applied to on its own
MaxAnsLen == 3
\* the most operands of an expression given to solve_math, and the largest one
MaxTerms == 3
MaxOperand == 3

(* ---------------- strings ---------------- *)

\* A Python str is a sequence of one-character strings.
Whitespace == {" "}

\* str.lstrip(), str.rstrip() and str.strip()
RECURSIVE lstrip(_)
lstrip(str) ==
    IF str # <<>> /\ Head(str) \in Whitespace THEN lstrip(Tail(str)) ELSE str
RECURSIVE rstrip(_)
rstrip(str) ==
    IF str # <<>> /\ str[Len(str)] \in Whitespace
    THEN rstrip(SubSeq(str, 1, Len(str) - 1))
    ELSE str
strip(str) == rstrip(lstrip(str))

\* usernames, in the order in which Python compares strings
NameSeq == << <<"p">>, <<"q">> >>
\* the position of a username in that order
NamePos(n) == CHOOSE i \in DOMAIN NameSeq : NameSeq[i] = n
\* the username the peers of the game register under (the server accepts the
\* same name twice)
Names == {NameSeq[1]}
\* the values of "username" in the HI messages of the game: a name as it is,
\* a name with blanks around it, and names that are empty after strip()
RawNames == Names \cup {<<" ">> \o n \o <<" ">> : n \in Names} \cup {<<>>, <<" ">>}
AnswerVals == 1..NumAnswers
\* the answer string that is empty after strip()
EmptyAns == 0

(* ---------------- what a peer can put on the wire ---------------- *)

\* A piece of data on a socket.  k is what the bytes are:
\*   ANSWER        one complete line {"message_type":"ANSWER","answer":a}
\*   DISCONNECTED  one complete line {"message_type":"DISCONNECTED"}
\*   OTHER         one complete line with any other message_type
\*   NONOBJ        one complete line holding a JSON value that is no object
\*   BAD           one line that is not JSON
\*   FRAG1, FRAG2  the two halves of one ANSWER line written separately
\*   EOF           the peer's FIN: recv() returns "" once it is reached
\* rnd and late are history tags of the piece that completes an ANSWER line:
\* the round that was open when it reached the server, and whether that
\* round's deadline had passed by then.
Piece(k, a, rnd, late) == [k |-> k, a |-> a, rnd |-> rnd, late |-> late]

CompleteKinds == {"ANSWER", "DISCONNECTED", "OTHER", "NONOBJ"}
DataKinds == CompleteKinds \cup {"BAD", "FRAG1", "FRAG2"}

\* the value recv_json returns when it returns no message
None == [k |-> "NONE", a |-> 0, rnd |-> 0, late |-> FALSE]

VARIABLES
    pc,         \* where main() is
    clients,    \* the list clients: <<[username, score, active], ...>>
    sockOpen,   \* per client: the server has not closed c["sock"]
    sockbuf,    \* per client: data that reached the server and was not recv()ed
    peerUp,     \* per client: the peer has not closed its end
    midLine,    \* per client: the peer has written FRAG1 and not yet FRAG2
    nsent,      \* pieces the peers have written so far
    rejects,    \* connections the handshake loop has closed without registering
    round,      \* i of the question loop (0 before the first question)
    canon,      \* the canonical answer of short_q of the round in progress
    expired,    \* time.time() has passed deadline
    answered,   \* the set answered
    rlist,      \* the part of r that `for sock in r` has still to visit
    rsock,      \* sock of the iteration in progress
    rbuf,       \* buf of the recv_json call in progress
    sent,       \* per client: every send_json call on its socket, in order
    sendFailed, \* per client: a sendall() on its socket has raised
    leftIn,     \* per client: the round in which it was marked inactive (0: never)
    leftBy,     \* per client: "eof" or "msg", what made the server mark it inactive
    seen,       \* per connection: how many of its messages a client.py peer has handled
    fn,         \* the helper function under check ("none" while the game runs)
    arg,        \* its argument
    res         \* what it returned

vars == <<pc, clients, sockOpen, sockbuf, peerUp, midLine, nsent, rejects, round, canon,
          expired, answered, rlist, rsock, rbuf, sent, sendFailed, leftIn, leftBy,
          seen, fn, arg, res>>

gamevars == <<pc, clients, sockOpen, sockbuf, peerUp, midLine, nsent, rejects, round, canon,
              expired, answered, rlist, rsock, rbuf, sent, sendFailed, leftIn, leftBy,
              seen>>
fnvars == <<fn, arg, res>>

netvars == <<sockbuf, peerUp, midLine, nsent>>
loopvars == <<rlist, rsock, rbuf>>
histvars == <<leftIn, leftBy>>
outvars == <<sent, sendFailed>>

Idx == 1..Len(clients)
Active == {p \in Idx : clients[p].active}
Scores == [p \in Idx |-> clients[p].score]

\* main() before the first accept()
InitGame ==
    /\ pc = "lobby"
    /\ clients = <<>>
    /\ sockOpen = <<>>
    /\ sockbuf = <<>>
    /\ peerUp = <<>>
    /\ midLine = <<>>
    /\ nsent = 0
    /\ rejects = 0
    /\ round = 0
    /\ canon = 0
    /\ expired = FALSE
    /\ answered = {}
    /\ rlist = <<>>
    /\ rsock = 0
    /\ rbuf = <<>>
    /\ sent = <<>>
    /\ sendFailed = <<>>
    /\ leftIn = <<>>
    /\ leftBy = <<>>
    /\ seen = [p \in 1..NumPlayers |-> 0]

Init ==
    /\ InitGame
    /\ fn = "none"
    /\ arg = <<>>
    /\ res = <<>>

(* ---------------- send_json ---------------- *)

\* the standings text of a message that carries none
NoBody == [kind |-> "none", lines |-> <<>>, winners |-> <<>>]

\* One entry of the log of send_json calls: the message_type, the round in
\* progress, the RESULT's flag and the standings text of a FINISHED.
Msg(t, r, c) == [t |-> t, r |-> r, c |-> c, body |-> NoBody]

\* a LEADERBOARD message with its state
Leaderboard(r, text) == [t |-> "LEADERBOARD", r |-> r, c |-> FALSE, body |-> text]

\* a FINISHED message with its final_standings
Finished(r, text) == [t |-> "FINISHED", r |-> r, c |-> FALSE, body |-> text]

\* Whether sendall() can raise on client p's socket: it does on a socket the
\* server has closed, it does not while the peer is up, and once the peer has
\* closed its end it may succeed (the kernel takes the bytes) or raise.
MayRaise(open, p) == ~open[p] \/ ~peerUp[p]
MustRaise(open, p) == ~open[p]

\* the sets of clients of S on whose sockets sendall() raises
Raising(open, S) ==
    {F \in SUBSET {p \in S : MayRaise(open, p)} : \A p \in S : MustRaise(open, p) => p \in F}

\* send_json(sock, obj) on every client of S: the call is logged, and the
\* exception of a failed sendall() is swallowed (`except Exception: pass`),
\* so the server's own state does not change.
send_json(log, S, obj) ==
    [p \in DOMAIN log |-> IF p \in S THEN Append(log[p], obj) ELSE log[p]]

\* sendFailed after sendall() raised for the clients of F
Failed(F) == [p \in DOMAIN sendFailed |-> sendFailed[p] \/ p \in F]

\* the process ends: the operating system closes every descriptor it holds
ProcessExit == [p \in DOMAIN sockOpen |-> FALSE]

(* ---------------- PHASE 1: handshake ---------------- *)

\* What recv_json(conn, 5.0) returns for the first bytes of a connection:
\*   HI            {"message_type":"HI","username":...}
\*   OTHER         an object with another message_type
\*   DISCONNECTED  the peer closed without writing
\*   NONE          nothing in 5 s, or bytes that are not one JSON value
\*   FALSY         a JSON value that is false in Python: 0, "", [], {}, null
\*   NONOBJ        any other JSON value that is no object: [1], 5, "x", true
FirstMsg(k, username) == [k |-> k, username |-> username]
FirstMsgs ==
    {FirstMsg("HI", n) : n \in RawNames}
        \cup {FirstMsg(k, <<>>) : k \in {"OTHER", "DISCONNECTED", "NONE", "FALSY", "NONOBJ"}}

\* lines 172-178: `if not msg or msg.get("message_type") != "HI"` closes the
\* connection, and so does a name that is empty after strip(); msg.get on a
\* value that is true and no dict raises AttributeError outside any try.
Handshake(m) ==
    IF m.k \in {"NONE", "FALSY"} THEN "reject"
    ELSE IF m.k = "NONOBJ" THEN "crash"
    ELSE IF m.k # "HI" THEN "reject"
    ELSE IF strip(m.username) = <<>> THEN "reject"
    ELSE "register"

\* mutant of QuotaOpen: the handshake loop ends with the first client
QuotaOpenForOne(cl) == Len(cl) < 1

\* line 164: `while len(clients) < players_needed`
QuotaOpen(cl) == Len(cl) < NumPlayers

\* accept() returns a connection whose first message is HI with a name that
\* is not empty after strip(): the client is appended to clients.
AcceptHI(m) ==
    /\ pc = "lobby"
    /\ QuotaOpen(clients)
    /\ Handshake(m) = "register"
    /\ clients' = Append(clients, [username |-> strip(m.username), score |-> 0,
                                   active |-> TRUE])
    /\ sockOpen' = Append(sockOpen, TRUE)
    /\ sockbuf' = Append(sockbuf, <<>>)
    /\ peerUp' = Append(peerUp, TRUE)
    /\ midLine' = Append(midLine, FALSE)
    /\ sent' = Append(sent, <<>>)
    /\ sendFailed' = Append(sendFailed, FALSE)
    /\ leftIn' = Append(leftIn, 0)
    /\ leftBy' = Append(leftBy, "none")
    /\ UNCHANGED <<fnvars, seen>>
    /\ UNCHANGED <<pc, nsent, rejects, round, canon, expired, answered, loopvars>>

\* accept() returns a connection whose first message is no HI, or a HI with an
\* empty name, or nothing within 5 s (recv_json returns None), or whose peer
\* closed (DISCONNECTED): conn.close(); continue.
AcceptReject(m) ==
    /\ pc = "lobby"
    /\ QuotaOpen(clients)
    /\ Handshake(m) = "reject"
    /\ rejects < MaxRejects
    /\ rejects' = rejects + 1
    /\ UNCHANGED <<fnvars, seen>>
    /\ UNCHANGED <<pc, clients, sockOpen, netvars, round, canon, expired, answered,
                   loopvars, outvars, histvars>>

\* accept() returns a connection whose first message is a JSON value that is
\* truthy and no object: msg.get raises AttributeError outside any try.
AcceptNonObject(m) ==
    /\ pc = "lobby"
    /\ QuotaOpen(clients)
    /\ Handshake(m) = "crash"
    /\ pc' = "crashed"
    /\ sockOpen' = ProcessExit
    /\ UNCHANGED <<fnvars, seen>>
    /\ UNCHANGED <<clients, netvars, rejects, round, canon, expired, answered,
                   loopvars, outvars, histvars>>

\* accept() times out after 10 s: "No players connected, shutting down", exit(0)
AcceptTimeout ==
    /\ pc = "lobby"
    /\ QuotaOpen(clients)
    /\ pc' = "shutdown"
    /\ sockOpen' = ProcessExit
    /\ UNCHANGED <<fnvars, seen>>
    /\ UNCHANGED <<clients, netvars, rejects, round, canon, expired, answered,
                   loopvars, outvars, histvars>>

\* the quota is met: READY to every client, then the question loop
Ready ==
    /\ pc = "lobby"
    /\ ~QuotaOpen(clients)
    /\ sent' = send_json(sent, Idx, Msg("READY", 0, FALSE))
    /\ \E F \in Raising(sockOpen, Idx) : sendFailed' = Failed(F)
    /\ pc' = IF NumRounds > 0 THEN "question" ELSE "final"
    /\ rejects' = 0
    /\ UNCHANGED <<fnvars, seen>>
    /\ UNCHANGED <<clients, sockOpen, netvars, round, canon, expired, answered,
                   loopvars, histvars>>

(* ---------------- PHASE 2: question loop ---------------- *)

\* mutant of NextRound: the loop comes back to the same index
SameRound(i) == i

\* line 186: `for i, qtype in enumerate(qtypes, start=1)`: the index of the
\* iteration that follows iteration i (0: none yet)
NextRound(i) == i + 1

\* One iteration of `for i, qtype in enumerate(qtypes, start=1)` up to the
\* deadline: a fresh answered set, a generated question (seen here through its
\* canonical answer), QUESTION to every active client, deadline = now + qsec.
QuestionOpen ==
    /\ pc = "question"
    /\ round' = NextRound(round)
    /\ answered' = {}
    /\ canon' \in AnswerVals
    /\ sent' = send_json(sent, Active, Msg("QUESTION", NextRound(round), FALSE))
    /\ \E F \in Raising(sockOpen, Active) : sendFailed' = Failed(F)
    /\ expired' = FALSE
    /\ pc' = "collect"
    /\ UNCHANGED <<fnvars, seen>>
    /\ UNCHANGED <<clients, sockOpen, netvars, rejects, loopvars, histvars>>

\* mutant of Readable: select() is handed the socket of every client
ReadableOfEveryone == {p \in Idx : sockbuf[p] # <<>>}

\* the sockets select() reports readable, in the order of the list it was given
Readable == {p \in Active : sockbuf[p] # <<>>}

\* mutant of Waiting: the select() of line 217 has no timeout, so the clock is
\* not looked at while no socket is readable
WaitingInRecvOnly == pc = "recv" /\ sockbuf[rsock] = <<>>

\* The server is waiting: in the select() of line 217 with no socket readable
\* (up to 0.05 s at a time), or in recv_json (up to 0.1 s) with nothing more
\* to read.  With a socket readable select() returns at once.
Waiting ==
    \/ pc = "collect" /\ Readable = {}
    \/ pc = "recv" /\ sockbuf[rsock] = <<>>

\* time.time() passes deadline while the server waits; it is seen at the
\* top of the loop
DeadlinePass ==
    /\ Waiting
    /\ ~expired
    /\ expired' = TRUE
    /\ UNCHANGED <<fnvars, seen>>
    /\ UNCHANGED <<pc, clients, sockOpen, netvars, rejects, round, canon, answered,
                   loopvars, outvars, histvars>>

\* a set of sockets as the list select() returns
RECURSIVE SortedSeq(_)
SortedSeq(S) ==
    IF S = {} THEN <<>>
    ELSE LET m == CHOOSE x \in S : \A y \in S : x <= y
         IN <<m>> \o SortedSeq(S \ {m})

\* top of `while True`: remaining <= 0, break
LoopExpire ==
    /\ pc = "collect"
    /\ expired
    /\ pc' = "grace"
    /\ UNCHANGED <<fnvars, seen>>
    /\ UNCHANGED <<clients, sockOpen, netvars, rejects, round, canon, expired, answered,
                   loopvars, outvars, histvars>>

\* top of `while True` with time remaining: select() over the active sockets
\* returns a non-empty r.  (An empty r changes nothing and the loop repeats.)
Select ==
    /\ pc = "collect"
    /\ ~expired
    /\ Readable # {}
    /\ rlist' = SortedSeq(Readable)
    /\ pc' = "dispatch"
    /\ UNCHANGED <<fnvars, seen>>
    /\ UNCHANGED <<clients, sockOpen, netvars, rejects, round, canon, expired, answered,
                   rsock, rbuf, outvars, histvars>>

\* `for sock in r`: the next socket, and recv_json(sock, 0.1) starts with buf = ""
NextSock ==
    /\ pc = "dispatch"
    /\ rlist # <<>>
    /\ rsock' = Head(rlist)
    /\ rlist' = Tail(rlist)
    /\ rbuf' = <<>>
    /\ pc' = "recv"
    /\ UNCHANGED <<fnvars, seen>>
    /\ UNCHANGED <<clients, sockOpen, netvars, rejects, round, canon, expired, answered,
                   outvars, histvars>>

\* `for sock in r` is exhausted: back to the top of `while True`
EndFor ==
    /\ pc = "dispatch"
    /\ rlist = <<>>
    /\ pc' = "collect"
    /\ UNCHANGED <<fnvars, seen>>
    /\ UNCHANGED <<clients, sockOpen, netvars, rejects, round, canon, expired, answered,
                   loopvars, outvars, histvars>>

(* ---------------- recv_json ---------------- *)

HasEOF(b) == b # <<>> /\ b[Len(b)].k = "EOF"
\* conn.recv(4096): everything buffered ahead of the FIN
Chunk(b) == IF HasEOF(b) THEN SubSeq(b, 1, Len(b) - 1) ELSE b
Rest(b) == IF HasEOF(b) THEN <<b[Len(b)]>> ELSE <<>>

\* dec.raw_decode(buf) and the test that follows it: a message is returned
\* only when buf starts with one complete JSON value and nothing but
\* whitespace follows it.  A value followed by more data returns nothing, and
\* neither does a buf that does not start with a complete JSON value
\* (JSONDecodeError: continue).
raw_decode(buf) ==
    IF buf = <<>> THEN [done |-> FALSE, msg |-> None]
    ELSE IF buf[1].k \in CompleteKinds
    THEN [done |-> Len(buf) = 1, msg |-> IF Len(buf) = 1 THEN buf[1] ELSE None]
    ELSE IF buf[1].k = "FRAG1" /\ Len(buf) >= 2 /\ buf[2].k = "FRAG2"
    THEN [done |-> Len(buf) = 2,
          msg |-> IF Len(buf) = 2
                  THEN Piece("ANSWER", buf[1].a, buf[2].rnd, buf[2].late)
                  ELSE None]
    ELSE [done |-> FALSE, msg |-> None]

\* One pass of the loop of recv_json(rsock, 0.1) on a readable socket:
\* chunk == "" returns DISCONNECTED, else buf += chunk and raw_decode(buf).
RecvStep ==
    LET b == sockbuf[rsock]
    IN  IF b[1].k = "EOF"
        THEN [done |-> TRUE, msg |-> Piece("DISCONNECTED", 0, 0, FALSE),
              eof |-> TRUE, buf |-> rbuf, left |-> b]
        ELSE LET nb == rbuf \o Chunk(b)
                 d == raw_decode(nb)
             IN [done |-> d.done, msg |-> d.msg, eof |-> FALSE, buf |-> nb,
                 left |-> Rest(b)]

InRecv == pc = "recv" /\ sockbuf[rsock] # <<>>

\* recv() gave data and buf holds no returnable message yet: loop again
RecvMore ==
    /\ InRecv
    /\ ~RecvStep.done
    /\ rbuf' = RecvStep.buf
    /\ sockbuf' = [sockbuf EXCEPT ![rsock] = RecvStep.left]
    /\ UNCHANGED <<fnvars, seen>>
    /\ UNCHANGED <<pc, clients, sockOpen, peerUp, midLine, nsent, rejects, round, canon,
                   expired, answered, rlist, rsock, outvars, histvars>>

\* 0.1 s pass with nothing more to read: recv_json returns None, buf is
\* dropped, `if not msg: continue`
RecvTimeout ==
    /\ pc = "recv"
    /\ sockbuf[rsock] = <<>>
    /\ rbuf' = <<>>
    /\ pc' = "dispatch"
    /\ UNCHANGED <<fnvars, seen>>
    /\ UNCHANGED <<clients, sockOpen, netvars, rejects, round, canon, expired, answered,
                   rlist, rsock, outvars, histvars>>

(* ---------------- routing of a received message ---------------- *)

\* mutant of IsDisconnect: every message that is no ANSWER counts as a departure
IsDisconnectNotAnswer(step) == step.msg.k # "ANSWER"

\* mutant of IsDisconnect: only a zero-byte read counts as a departure
IsDisconnectEofOnly(step) == step.eof

\* line 224: msg.get("message_type") == "DISCONNECTED", whether recv_json made
\* the message up after a zero-byte read or the peer wrote it
IsDisconnect(step) == step.msg.k = "DISCONNECTED"

\* mutant of EveryoneLeft: the early end of the game is never taken
EveryoneLeftNever(cl) == FALSE

\* line 235: not any(c["active"] for c in clients)
EveryoneLeft(cl) == \A q \in DOMAIN cl : ~cl[q].active

\* mutant of AfterBye: a departure ends the collection window
AfterByeBreak == "grace"

\* line 244: `continue` after the BYE broadcast, on to the next socket of r
AfterBye == "dispatch"

\* lines 236-239: the final_standings of a game everybody left
early_text == [kind |-> "early", lines |-> <<>>, winners |-> <<>>]

\* lines 224-244: mark the client inactive, close its socket, BYE to the
\* clients still active; when nobody is active FINISHED to every client,
\* srv.close() and return.
OnDisconnected ==
    /\ InRecv
    /\ RecvStep.done
    /\ IsDisconnect(RecvStep)
    /\ LET p == rsock
           cl == [clients EXCEPT ![p].active = FALSE]
           open == [sockOpen EXCEPT ![p] = FALSE]
           others == {q \in DOMAIN cl : cl[q].active}
       IN  /\ clients' = cl
           /\ sockbuf' = [sockbuf EXCEPT ![p] = RecvStep.left]
           /\ leftIn' = [leftIn EXCEPT ![p] = round]
           /\ leftBy' = [leftBy EXCEPT ![p] = IF RecvStep.eof THEN "eof" ELSE "msg"]
           /\ IF EveryoneLeft(cl)
              THEN /\ sent' = send_json(sent, DOMAIN cl, Finished(round, early_text))
                   /\ \E F \in Raising(open, DOMAIN cl) : sendFailed' = Failed(F)
                   /\ sockOpen' = ProcessExit
                   /\ pc' = "early"
              ELSE /\ sent' = send_json(sent, others, Msg("BYE", round, FALSE))
                   /\ \E F \in Raising(open, others) : sendFailed' = Failed(F)
                   /\ sockOpen' = open
                   /\ pc' = AfterBye
    /\ rbuf' = <<>>
    /\ UNCHANGED <<fnvars, seen>>
    /\ UNCHANGED <<peerUp, midLine, nsent, rejects, round, canon, expired, answered,
                   rlist, rsock>>

\* mutant of IsCorrect: every answer is judged correct
IsCorrectAlways(ans) == TRUE

\* line 279 with the evaluator seen through the canonical answer: the
\* submitted answer equals the canonical answer of the question in progress
IsCorrect(ans) == ans = canon

\* lines 246-290: an ANSWER whose answer is not empty is added to answered,
\* judged, answered with RESULT, and scored when correct.
OnAnswer ==
    /\ InRecv
    /\ RecvStep.done
    /\ RecvStep.msg.k = "ANSWER"
    /\ LET p == rsock
           ans == RecvStep.msg.a
       IN  /\ sockbuf' = [sockbuf EXCEPT ![p] = RecvStep.left]
           /\ IF ans = EmptyAns
              THEN UNCHANGED <<answered, sent, sendFailed, clients>>
              ELSE /\ answered' = answered \cup {p}
                   /\ sent' = send_json(sent, {p}, Msg("RESULT", round, IsCorrect(ans)))
                   /\ \E F \in Raising(sockOpen, {p}) : sendFailed' = Failed(F)
                   /\ clients' = IF IsCorrect(ans)
                                 THEN [clients EXCEPT ![p].score = @ + 1]
                                 ELSE clients
    /\ rbuf' = <<>>
    /\ pc' = "dispatch"
    /\ UNCHANGED <<fnvars, seen>>
    /\ UNCHANGED <<sockOpen, peerUp, midLine, nsent, rejects, round, canon, expired,
                   rlist, rsock, histvars>>

\* line 246-247 and line 291-292: any other message_type is skipped, and a
\* JSON value that is no object makes msg.get raise inside the try, or is
\* falsy at line 221: continue either way.
OnIgnored ==
    /\ InRecv
    /\ RecvStep.done
    /\ ~IsDisconnect(RecvStep)
    /\ RecvStep.msg.k # "ANSWER"
    /\ sockbuf' = [sockbuf EXCEPT ![rsock] = RecvStep.left]
    /\ rbuf' = <<>>
    /\ pc' = "dispatch"
    /\ UNCHANGED <<fnvars, seen>>
    /\ UNCHANGED <<clients, sockOpen, peerUp, midLine, nsent, rejects, round, canon,
                   expired, answered, rlist, rsock, outvars, histvars>>

(* ---------------- grace period, leaderboard, end of the iteration ---------------- *)

\* mutant of recv_json_zero: the call returns the message at the head of the
\* socket's data
recv_json_head(p) ==
    IF sockbuf[p] # <<>> /\ sockbuf[p][1].k \in CompleteKinds THEN sockbuf[p][1] ELSE None

\* recv_json(sock, 0.0): `while time.time() - start < timeout` is false on
\* entry, so the call returns None without reading the socket.
recv_json_zero(p) == None

\* lines 302-335 for one socket of r: the score gained from what
\* recv_json(sock, 0.0) returned
GraceGain(p) ==
    LET msg == recv_json_zero(p)
    IN  IF msg.k = "ANSWER" /\ msg.a # EmptyAns /\ IsCorrect(msg.a) THEN 1 ELSE 0

\* lines 295-335: until grace_end, select() with timeout 0 and
\* recv_json(sock, 0.0) on every readable socket
GraceWindow ==
    /\ pc = "grace"
    /\ clients' = [p \in Idx |->
                     IF p \in Readable
                     THEN [clients[p] EXCEPT !.score = @ + GraceGain(p)]
                     ELSE clients[p]]
    /\ pc' = "board"
    /\ UNCHANGED <<fnvars, seen>>
    /\ UNCHANGED <<sockOpen, netvars, rejects, round, canon, expired, answered,
                   loopvars, outvars, histvars>>

(* ---------------- ranking ---------------- *)

\* mutant of Everyone: the clients that left are not listed
EveryoneActive(cl) == {q \in DOMAIN cl : cl[q].active}

\* lines 340 and 360: `everyone = clients`, the clients that left included
Everyone(cl) == DOMAIN cl

\* mutant of Before: the list is sorted by username only
BeforeByName(cl, a, b) ==
    \/ NamePos(cl[a].username) < NamePos(cl[b].username)
    \/ NamePos(cl[a].username) = NamePos(cl[b].username) /\ a < b

\* the key of lines 343 and 361, (-score, username), compared as Python
\* compares tuples; the sort is stable, so clients equal in both keep the
\* order of the list
Before(cl, a, b) ==
    \/ cl[a].score > cl[b].score
    \/ /\ cl[a].score = cl[b].score
       /\ \/ NamePos(cl[a].username) < NamePos(cl[b].username)
          \/ NamePos(cl[a].username) = NamePos(cl[b].username) /\ a < b

\* lines 343 and 361: sorted(everyone, key=...), as the list of the clients'
\* indices
RECURSIVE SortBy(_, _)
SortBy(cl, S) ==
    IF S = {} THEN <<>>
    ELSE LET first == CHOOSE a \in S : \A b \in S \ {a} : Before(cl, a, b)
         IN  <<first>> \o SortBy(cl, S \ {first})
sorted_final(cl) == SortBy(cl, Everyone(cl))

\* mutant of RankAt: the rank is the position in the list
RankSequential(cl, s, idx) == idx

\* lines 341-346 and 362-367: `rank, last = 0, None`, and for each entry
\* `if c["score"] != last: rank = idx; last = c["score"]`
RECURSIVE RankAt(_, _, _)
RankAt(cl, s, idx) ==
    IF idx = 1 THEN 1
    ELSE IF cl[s[idx]].score # cl[s[idx - 1]].score THEN idx
    ELSE RankAt(cl, s, idx - 1)

\* lines 347-348 and 368-369: the line of the entry at position idx: rank,
\* username, score and whether the unit is the plural noun
Line(cl, s, idx) ==
    [rank |-> RankAt(cl, s, idx),
     username |-> cl[s[idx]].username,
     score |-> cl[s[idx]].score,
     plural |-> cl[s[idx]].score # 1]

\* lines 340-349: the text lb of a LEADERBOARD
leaderboard_text(cl) ==
    LET s == sorted_final(cl)
    IN  [kind |-> "leaderboard",
         lines |-> [idx \in DOMAIN s |-> Line(cl, s, idx)],
         winners |-> <<>>]

\* mutant of TopScore: the score of the last entry of the sorted list
BottomScore(cl, s) == cl[s[Len(s)]].score

\* line 370: top = sorted_final[0]["score"]
TopScore(cl, s) == cl[s[1]].score

\* line 371: [c["username"] for c in sorted_final if c["score"] == top]
RECURSIVE Winners(_, _, _)
Winners(cl, s, top) ==
    IF s = <<>> THEN <<>>
    ELSE (IF cl[Head(s)].score = top THEN <<cl[Head(s)].username>> ELSE <<>>)
             \o Winners(cl, Tail(s), top)

\* lines 360-379: final_text: one line per client and the usernames holding
\* the top score (the three templates of lines 373-378 all name every winner)
final_text(cl) ==
    LET s == sorted_final(cl)
    IN  [kind |-> "standings",
         lines |-> [idx \in DOMAIN s |-> Line(cl, s, idx)],
         winners |-> Winners(cl, s, TopScore(cl, s))]

(* ---------------- end of the iteration ---------------- *)

\* line 339: the leaderboard is sent `if i < len(qtypes)`
SendsLeaderboard(i) == i < NumRounds

\* line 354: `if any(not c["active"] for c in clients): break`
LoopBreaks(cl) == \E q \in DOMAIN cl : ~cl[q].active

\* lines 338-355: LEADERBOARD to the active clients unless this is the last
\* configured round, then break when any client is inactive, else the next
\* iteration (or the end of the loop).
EndRound ==
    /\ pc = "board"
    /\ IF SendsLeaderboard(round)
       THEN /\ sent' = send_json(sent, Active, Leaderboard(round, leaderboard_text(clients)))
            /\ \E F \in Raising(sockOpen, Active) : sendFailed' = Failed(F)
       ELSE UNCHANGED outvars
    /\ pc' = IF LoopBreaks(clients) \/ round >= NumRounds THEN "final" ELSE "question"
    /\ UNCHANGED <<fnvars, seen>>
    /\ UNCHANGED <<clients, sockOpen, netvars, rejects, round, canon, expired, answered,
                   loopvars, histvars>>

(* ---------------- PHASE 3: final standings ---------------- *)

\* mutant of FinalRecipients: FINISHED goes to the clients that left only
FinalRecipientsLeft == Idx \ Active

\* line 381: `for c in clients`: FINISHED goes to every client
FinalRecipients == Idx

\* lines 358-389: when a client is still active FINISHED is sent, then every
\* socket is closed.
Final ==
    /\ pc = "final"
    /\ IF Active # {}
       THEN /\ sent' = send_json(sent, FinalRecipients, Finished(round, final_text(clients)))
            /\ \E F \in Raising(sockOpen, FinalRecipients) : sendFailed' = Failed(F)
       ELSE UNCHANGED outvars
    /\ sockOpen' = [p \in Idx |-> FALSE]
    /\ pc' = "done"
    /\ UNCHANGED <<fnvars, seen>>
    /\ UNCHANGED <<clients, netvars, rejects, round, canon, expired, answered,
                   loopvars, histvars>>

(* ---------------- the peers ---------------- *)

\* The points of main() at which the model lets the peers act: between two
\* rounds, at the top of the collection loop, and inside recv_json.  What a
\* peer does elsewhere is seen by the server no earlier than at the next of
\* these points; the peers are taken to be quiet between READY and the first
\* QUESTION.
PeersAct == pc \in {"collect", "recv"} \/ (pc = "question" /\ round >= 1)

\* what a peer can write next: the second half of a line it has begun, else
\* any complete line or the first half of an ANSWER
Writable(p) ==
    IF midLine[p] THEN {<<"FRAG2", 0>>}
    ELSE {<<"ANSWER", a>> : a \in AnswerVals \cup {EmptyAns}}
         \cup {<<"FRAG1", a>> : a \in AnswerVals}
         \cup {<<k, 0>> : k \in {"DISCONNECTED", "OTHER", "NONOBJ", "BAD"}}

\* the history tags of a piece written now
Tagged(k) == k \in {"ANSWER", "FRAG2"}

\* a registered peer writes to its socket after READY and the bytes reach the
\* server
PeerWrite(p, w) ==
    /\ PeersAct
    /\ p \in Idx
    /\ peerUp[p] /\ sockOpen[p]
    /\ nsent < MaxSend
    /\ w \in Writable(p)
    /\ sockbuf' = [sockbuf EXCEPT ![p] =
                     Append(@, Piece(w[1], w[2],
                                     IF Tagged(w[1]) THEN round ELSE 0,
                                     Tagged(w[1]) /\ expired))]
    /\ midLine' = [midLine EXCEPT ![p] = (w[1] = "FRAG1")]
    /\ nsent' = nsent + 1
    /\ UNCHANGED <<fnvars, seen>>
    /\ UNCHANGED <<pc, clients, sockOpen, peerUp, rejects, round, canon, expired, answered,
                   loopvars, outvars, histvars>>

\* a registered peer closes its end: the FIN queues behind its data
PeerClose(p) ==
    /\ PeersAct
    /\ p \in Idx
    /\ peerUp[p]
    /\ peerUp' = [peerUp EXCEPT ![p] = FALSE]
    /\ sockbuf' = [sockbuf EXCEPT ![p] = IF sockOpen[p]
                                          THEN Append(@, Piece("EOF", 0, 0, FALSE))
                                          ELSE @]
    /\ UNCHANGED <<fnvars, seen>>
    /\ UNCHANGED <<pc, clients, sockOpen, midLine, nsent, rejects, round, canon, expired,
                   answered, loopvars, outvars, histvars>>

Next ==
    \/ \E m \in FirstMsgs : AcceptHI(m)
    \/ \E m \in FirstMsgs : AcceptReject(m)
    \/ \E m \in FirstMsgs : AcceptNonObject(m)
    \/ AcceptTimeout
    \/ Ready
    \/ QuestionOpen
    \/ DeadlinePass
    \/ LoopExpire
    \/ Select
    \/ NextSock
    \/ EndFor
    \/ RecvMore
    \/ RecvTimeout
    \/ OnDisconnected
    \/ OnAnswer
    \/ OnIgnored
    \/ GraceWindow
    \/ EndRound
    \/ Final
    \/ \E p \in Idx : \E w \in Writable(p) : PeerWrite(p, w)
    \/ \E p \in Idx : PeerClose(p)

Spec == Init /\ [][Next]_vars

(* ---------------- the ranking on its own ---------------- *)

\* the rosters the question loop can end a round with: any names, any scores,
\* at least one client still active
Rosters ==
    {cl \in UNION {[1..n -> [username : {NameSeq[i] : i \in DOMAIN NameSeq},
                             score : 0..MaxScore,
                             active : BOOLEAN]] : n \in 1..RosterSize} :
        \E q \in DOMAIN cl : cl[q].active}

InitRank ==
    /\ InitGame
    /\ fn = "rank"
    /\ arg \in Rosters
    /\ res = [lb |-> NoBody, fin |-> NoBody]

\* lines 340-349 applied to the roster
ApplyLeaderboard ==
    /\ fn = "rank"
    /\ res.lb = NoBody
    /\ res' = [res EXCEPT !.lb = leaderboard_text(arg)]
    /\ UNCHANGED <<gamevars, fn, arg>>

\* lines 358-379 applied to the roster
ApplyFinal ==
    /\ fn = "rank"
    /\ res.fin = NoBody
    /\ \E q \in DOMAIN arg : arg[q].active
    /\ res' = [res EXCEPT !.fin = final_text(arg)]
    /\ UNCHANGED <<gamevars, fn, arg>>

NextRank ==
    \/ ApplyLeaderboard
    \/ ApplyFinal

SpecRank == InitRank /\ [][NextRank]_vars

(* ---------------- the judge on its own ---------------- *)

\* the question types of lines 189-196
QTypes == {"Mathematics", "Roman Numerals", "Usable IP Addresses of a Subnet",
           "Network and Broadcast Address of a Subnet"}

\* The characters of the submitted answers: a blank, a digit, the ASCII
\* minus, "~" standing for the minus sign U+2212, a letter in both cases and
\* a comma.
Chars == {" ", "1", "-", "~", "x", "X", ","}

\* the strings of at most n characters
Strings(n) == UNION {[1..k -> Chars] : k \in 0..n}

\* str.replace(old, new) for a one-character old
RECURSIVE replace(_, _, _)
replace(str, old, new) ==
    IF str = <<>> THEN <<>>
    ELSE (IF Head(str) = old THEN new ELSE <<Head(str)>>) \o replace(Tail(str), old, new)

\* str.upper()
RECURSIVE upper(_)
upper(str) ==
    IF str = <<>> THEN <<>>
    ELSE <<IF Head(str) = "x" THEN "X" ELSE Head(str)>> \o upper(Tail(str))

\* re.sub(r"\s+", " ", str): every run of whitespace becomes one blank
RECURSIVE sub_spaces(_)
sub_spaces(str) ==
    IF str = <<>> THEN <<>>
    ELSE IF Head(str) \in Whitespace
    THEN <<" ">> \o sub_spaces(lstrip(str))
    ELSE <<Head(str)>> \o sub_spaces(Tail(str))

\* mutant of normalize_answer: the answers are only stripped
normalize_strip(qtype, str) == strip(str)

\* lines 90-99
normalize_answer(qtype, str) ==
    LET t == strip(str)
    IN  IF qtype = "Mathematics" THEN replace(replace(t, " ", <<>>), "-", <<"~">>)
        ELSE IF qtype = "Roman Numerals" THEN strip(upper(t))
        ELSE IF qtype = "Network and Broadcast Address of a Subnet"
        THEN sub_spaces(replace(t, ",", <<" ">>))
        ELSE t

\* The canonical answers lines 255-277 compute, by question type: a number,
\* with U+2212 in front when negative (solve_math), a number (Roman numerals,
\* usable addresses), and two addresses with " and " between them, written
\* here as two fields with one blank between them.
CanonicalAnswers(qtype) ==
    IF qtype = "Mathematics" THEN {<<"1">>, <<"~", "1">>}
    ELSE IF qtype = "Network and Broadcast Address of a Subnet" THEN {<<"1", " ", "1">>}
    ELSE {<<"1">>}

\* mutant of Gain: the point is given whatever the comparison says
GainAlways(correct) == 1

\* lines 287-290: `if correct: c["score"] += 1`
Gain(correct) == IF correct THEN 1 ELSE 0

\* what the judge has not produced yet
Pending == [result |-> "pending", correct |-> FALSE, gain |-> 0, next |-> "pending"]

\* lines 249-292 for one ANSWER: ans = str(answer).strip(); an empty ans is
\* skipped; else the normalized strings are compared, RESULT is sent and the
\* point added when they are equal.  Either way the for loop goes on with
\* the next socket (`continue`, or the end of the body; an exception would
\* be caught at line 291 and end the same way).
Judge(qtype, answer, correct_answer) ==
    LET ans == strip(answer)
    IN  IF ans = <<>>
        THEN [result |-> "none", correct |-> FALSE, gain |-> 0, next |-> "continue"]
        ELSE LET correct == normalize_answer(qtype, ans)
                                = normalize_answer(qtype, correct_answer)
             IN [result |-> "RESULT", correct |-> correct, gain |-> Gain(correct),
                 next |-> "continue"]

InitJudge ==
    /\ InitGame
    /\ fn = "judge"
    /\ arg \in {[qtype |-> q, answer |-> a, correct_answer |-> ca] :
                   q \in QTypes, a \in Strings(MaxAnsLen),
                   ca \in UNION {CanonicalAnswers(qq) : qq \in QTypes}}
    /\ arg.correct_answer \in CanonicalAnswers(arg.qtype)
    /\ res = Pending

ApplyJudge ==
    /\ fn = "judge"
    /\ res = Pending
    /\ res' = Judge(arg.qtype, arg.answer, arg.correct_answer)
    /\ UNCHANGED <<gamevars, fn, arg>>

NextJudge == ApplyJudge

SpecJudge == InitJudge /\ [][NextJudge]_vars

(* ---------------- solve_math on its own ---------------- *)

\* An element of vals (line 108): a number, or an operator as a string
Num(v) == [k |-> "num", v |-> v]
Op(o) == [k |-> o, v |-> 0]
Ops == {"+", "-", "*", "/"}

\* vals for the payloads a0 op1 a1 ... of at most MaxTerms operands
Exprs ==
    UNION {{e \in [1..(2 * n - 1) -> {Num(v) : v \in 0..MaxOperand} \cup {Op(o) : o \in Ops}] :
                \A i \in 1..(2 * n - 1) : (e[i].k = "num") <=> (i % 2 = 1)}
           : n \in 1..MaxTerms}

\* vals[i - 1:i + 2] = [v], with Python's 0-based i at position i + 1
Splice(vals, i, v) ==
    SubSeq(vals, 1, i - 1) \o <<Num(v)>> \o SubSeq(vals, i + 3, Len(vals))

\* lines 109-118: the first loop, which folds every * and / in place (i is
\* Python's 0-based index)
RECURSIVE MulDivPass(_, _)
MulDivPass(vals, i) ==
    IF ~(i < Len(vals)) THEN vals
    ELSE IF vals[i + 1].k = "*" /\ 0 < i /\ i < Len(vals) - 1
    THEN MulDivPass(Splice(vals, i, vals[i].v * vals[i + 2].v), i - 1)
    ELSE IF vals[i + 1].k = "/" /\ 0 < i /\ i < Len(vals) - 1
    THEN MulDivPass(Splice(vals, i, IF vals[i + 2].v # 0
                                    THEN vals[i].v \div vals[i + 2].v
                                    ELSE 0),
                    i - 1)
    ELSE MulDivPass(vals, i + 1)

\* lines 119-125: the second loop, which folds + and - from the left
RECURSIVE AddSubPass(_, _, _)
AddSubPass(vals, i, acc) ==
    IF ~(i < Len(vals)) THEN acc
    ELSE AddSubPass(vals, i + 2,
                    IF vals[i + 1].k = "+" THEN acc + vals[i + 2].v
                    ELSE IF vals[i + 1].k = "-" THEN acc - vals[i + 2].v
                    ELSE acc)

\* str(res).replace("-", U+2212): the sign and the digits
Rendered(n) == [minus |-> n < 0, digits |-> IF n < 0 THEN 0 - n ELSE n]

\* lines 102-126
solve_math(vals) ==
    LET v == MulDivPass(vals, 0)
    IN  Rendered(AddSubPass(v, 1, v[1].v))

InitMath ==
    /\ InitGame
    /\ fn = "solve_math"
    /\ arg \in Exprs
    /\ res = [applied |-> FALSE, answer |-> Rendered(0)]

ApplySolveMath ==
    /\ fn = "solve_math"
    /\ ~res.applied
    /\ res' = [applied |-> TRUE, answer |-> solve_math(arg)]
    /\ UNCHANGED <<gamevars, fn, arg>>

NextMath == ApplySolveMath

SpecMath == InitMath /\ [][NextMath]_vars

(* ---------------- Roman numerals on their own ---------------- *)

\* questions.py line 67: the largest number a Roman-numerals question encodes
MaxRoman == 3999

\* questions.py lines 10-14: table
table ==
    << [sym |-> <<"M">>, val |-> 1000], [sym |-> <<"C", "M">>, val |-> 900],
       [sym |-> <<"D">>, val |-> 500],  [sym |-> <<"C", "D">>, val |-> 400],
       [sym |-> <<"C">>, val |-> 100],  [sym |-> <<"X", "C">>, val |-> 90],
       [sym |-> <<"L">>, val |-> 50],   [sym |-> <<"X", "L">>, val |-> 40],
       [sym |-> <<"X">>, val |-> 10],   [sym |-> <<"I", "X">>, val |-> 9],
       [sym |-> <<"V">>, val |-> 5],    [sym |-> <<"I", "V">>, val |-> 4],
       [sym |-> <<"I">>, val |-> 1] >>

\* questions.py lines 15-20: `for sym, val in table: while n >= val: ...`,
\* from entry k of the table on
RECURSIVE RomanFrom(_, _)
RomanFrom(n, k) ==
    IF k > Len(table) THEN <<>>
    ELSE IF n >= table[k].val THEN table[k].sym \o RomanFrom(n - table[k].val, k)
    ELSE RomanFrom(n, k + 1)

\* questions.py lines 8-20
int_to_roman(n) == RomanFrom(n, 1)

\* server.py line 258 and `rom.get(ch, 0)` of line 261
rom(ch) ==
    CASE ch = "I" -> 1 [] ch = "V" -> 5 [] ch = "X" -> 10 [] ch = "L" -> 50
      [] ch = "C" -> 100 [] ch = "D" -> 500 [] ch = "M" -> 1000 [] OTHER -> 0

\* mutant of Signed: every symbol is added
SignedPlus(v, prev) == v

\* server.py line 262: `-v if v < prev else v`
Signed(v, prev) == IF v < prev THEN 0 - v ELSE v

\* server.py lines 259-263: `for ch in reversed(short_q)`, with i the number
\* of characters still to visit
RECURSIVE RomanLoop(_, _, _, _)
RomanLoop(short_q, i, total, prev) ==
    IF i = 0 THEN total
    ELSE RomanLoop(short_q, i - 1, total + Signed(rom(short_q[i]), prev), rom(short_q[i]))

\* server.py lines 258-264: the number whose str() is correct_answer
roman_total(short_q) == RomanLoop(short_q, Len(short_q), 0, 0)

InitRoman ==
    /\ InitGame
    /\ fn = "roman"
    /\ arg \in 1..MaxRoman
    /\ res = [stage |-> "number", short_q |-> <<>>, total |-> 0]

\* the generator encodes the number
ApplyIntToRoman ==
    /\ fn = "roman"
    /\ res.stage = "number"
    /\ res' = [res EXCEPT !.stage = "encoded", !.short_q = int_to_roman(arg)]
    /\ UNCHANGED <<gamevars, fn, arg>>

\* the server decodes the payload
ApplyRomanTotal ==
    /\ fn = "roman"
    /\ res.stage = "encoded"
    /\ res' = [res EXCEPT !.stage = "decoded", !.total = roman_total(res.short_q)]
    /\ UNCHANGED <<gamevars, fn, arg>>

NextRoman ==
    \/ ApplyIntToRoman
    \/ ApplyRomanTotal

SpecRoman == InitRoman /\ [][NextRoman]_vars

(* ---------------- Python integers and their text ---------------- *)

\* The decimal digits, "0" first
DigitChars == <<"0", "1", "2", "3", "4", "5", "6", "7", "8", "9">>

\* str(n) of an int n >= 0 that fits the model checker's integers
RECURSIVE str_nat(_)
str_nat(n) ==
    IF n < 10 THEN <<DigitChars[n + 1]>>
    ELSE str_nat(n \div 10) \o <<DigitChars[(n % 10) + 1]>>

\* int(s) of a string of decimal digits
RECURSIVE int(_)
int(s) ==
    IF s = <<>> THEN 0
    ELSE 10 * int(SubSeq(s, 1, Len(s) - 1))
         + ((CHOOSE k \in DOMAIN DigitChars : DigitChars[k] = s[Len(s)]) - 1)

\* s.split(sep) for a one-character sep: the list of the fields
RECURSIVE split(_, _)
split(s, sep) ==
    IF \A i \in DOMAIN s : s[i] # sep THEN <<s>>
    ELSE LET i == CHOOSE j \in DOMAIN s : s[j] = sep /\ \A k \in 1..(j - 1) : s[k] # sep
         IN  <<SubSeq(s, 1, i - 1)>> \o split(SubSeq(s, i + 1, Len(s)), sep)

\* A Python int that the shifts of lines 267-276 produce is kept as its 64
\* low bits, bit 0 first: no value of these lines needs more (the widest is
\* 0xFFFFFFFF << 32).
BitPos == 1..64

\* the bits as a list
word(f) == SubSeq(f, 1, 64)

\* an int below 2^16 as bits
bits(n) == word([i \in BitPos |-> IF i <= 16 THEN (n \div (2 ^ (i - 1))) % 2 ELSE 0])
\* 0xFFFFFFFF
xFFFFFFFF == word([i \in BitPos |-> IF i <= 32 THEN 1 ELSE 0])
\* x << k, x >> k, x | y, x & y, ~x
shl(x, k) == word([i \in BitPos |-> IF i > k THEN x[i - k] ELSE 0])
shr(x, k) == word([i \in BitPos |-> IF i + k \in BitPos THEN x[i + k] ELSE 0])
bor(x, y) == word([i \in BitPos |-> IF x[i] = 1 \/ y[i] = 1 THEN 1 ELSE 0])
band(x, y) == word([i \in BitPos |-> IF x[i] = 1 /\ y[i] = 1 THEN 1 ELSE 0])
bnot(x) == word([i \in BitPos |-> 1 - x[i]])

\* x - y for x >= y >= 0: bit i of the difference is x[i] - y[i] less the
\* borrow, and a borrow reaches bit i when the highest bit below i in which x
\* and y differ is set in y
Borrow(x, y, i) ==
    IF \E j \in 1..(i - 1) : x[j] < y[j] /\ \A k \in (j + 1)..(i - 1) : x[k] = y[k]
    THEN 1 ELSE 0
minus(x, y) == word([i \in BitPos |-> (x[i] - y[i] - Borrow(x, y, i)) % 2])

\* byte j of x, the lowest being byte 1
Byte(x, j) ==
    LET b(k) == x[8 * (j - 1) + k + 1] * (2 ^ k)
    IN  b(0) + b(1) + b(2) + b(3) + b(4) + b(5) + b(6) + b(7)

\* divmod(x, 10) by long division, a byte at a time from byte j down: q is
\* the bytes of the quotient found so far, r the running remainder.  (t is
\* bound by a set so that it is computed once.)
RECURSIVE DivMod10(_, _, _, _)
DivMod10(x, j, r, q) ==
    IF j = 0 THEN [q |-> word([i \in BitPos |-> (q[((i - 1) \div 8) + 1] \div (2 ^ ((i - 1) % 8))) % 2]),
                   r |-> r]
    ELSE CHOOSE dm \in {DivMod10(x, j - 1, t % 10, <<t \div 10>> \o q) :
                            t \in {256 * r + Byte(x, j)}} : TRUE

\* str(x) of an int x >= 0 kept as bits
RECURSIVE str_bits(_)
str_bits(x) ==
    CHOOSE s \in {IF \A i \in BitPos : dm.q[i] = 0 THEN <<DigitChars[dm.r + 1]>>
                  ELSE str_bits(dm.q) \o <<DigitChars[dm.r + 1]>> :
                      dm \in {DivMod10(x, 8, 0, <<>>)}} : TRUE

(* ---------------- the subnet answers on their own ---------------- *)

\* questions.py lines 79 and 90: the largest prefix of a generated payload
MaxPrefix == 32
\* the values the octets of the payloads are drawn from (of 0..255)
OctetVals == {0, 172, 255}

\* questions.py lines 81 and 92: f"{a}.{b}.{c}.{d}/{prefix}"
cidr(a, b, c, d, prefix) ==
    str_nat(a) \o <<".">> \o str_nat(b) \o <<".">> \o str_nat(c) \o <<".">>
               \o str_nat(d) \o <<"/">> \o str_nat(prefix)

\* mutant of NoHosts: a /30 is taken to have no usable address either
NoHostsFrom30(p) == p >= 30

\* server.py line 267: `0 if p >= 31`
NoHosts(p) == p >= 31

\* server.py lines 266-267
usable_answer(short_q) ==
    LET parts == split(short_q, "/")
        p == int(parts[Len(parts)])
    IN  IF NoHosts(p) THEN str_nat(0)
        ELSE str_bits(minus(shl(bits(1), 32 - p), bits(2)))

\* server.py line 276: toip
toip(n) ==
    LET octet(k) == Byte(band(shr(n, k), bits(255)), 1)
    IN  str_nat(octet(24)) \o <<".">> \o str_nat(octet(16)) \o <<".">>
        \o str_nat(octet(8)) \o <<".">> \o str_nat(octet(0))

\* mutant of Mask: the shift is by the prefix instead of by the host bits
MaskShiftPrefix(p) == band(shl(xFFFFFFFF, p), xFFFFFFFF)

\* server.py line 273
Mask(p) == band(shl(xFFFFFFFF, 32 - p), xFFFFFFFF)

\* server.py lines 269-277
netbc_answer(short_q) ==
    LET parts == split(short_q, "/")
        ip == split(parts[1], ".")
        a == int(ip[1])
        b == int(ip[2])
        c_ == int(ip[3])
        d == int(ip[4])
        p == int(parts[2])
        addr == bor(bor(bor(shl(bits(a), 24), shl(bits(b), 16)), shl(bits(c_), 8)), bits(d))
        mask == Mask(p)
        net == band(addr, mask)
        bc == bor(net, band(bnot(mask), xFFFFFFFF))
    IN  toip(net) \o <<" ", "a", "n", "d", " ">> \o toip(bc)

InitSubnet ==
    /\ InitGame
    /\ fn = "subnet"
    /\ arg \in [a : OctetVals, b : OctetVals, c : OctetVals, d : OctetVals,
                prefix : 0..MaxPrefix]
    /\ res = [short_q |-> <<>>, usable |-> <<>>, netbc |-> <<>>]

\* the generator writes the payload
ApplyCidr ==
    /\ fn = "subnet"
    /\ res.short_q = <<>>
    /\ res' = [res EXCEPT !.short_q = cidr(arg.a, arg.b, arg.c, arg.d, arg.prefix)]
    /\ UNCHANGED <<gamevars, fn, arg>>

\* the server computes the answer of a usable-addresses question
ApplyUsable ==
    /\ fn = "subnet"
    /\ res.short_q # <<>>
    /\ res.usable = <<>>
    /\ res' = [res EXCEPT !.usable = usable_answer(res.short_q)]
    /\ UNCHANGED <<gamevars, fn, arg>>

\* the server computes the answer of a network-and-broadcast question
ApplyNetBc ==
    /\ fn = "subnet"
    /\ res.short_q # <<>>
    /\ res.netbc = <<>>
    /\ res' = [res EXCEPT !.netbc = netbc_answer(res.short_q)]
    /\ UNCHANGED <<gamevars, fn, arg>>

NextSubnet ==
    \/ ApplyCidr
    \/ ApplyUsable
    \/ ApplyNetBc

SpecSubnet == InitSubnet /\ [][NextSubnet]_vars

(* ---------------- one timely answer, end to end ---------------- *)

\* The game of two or more registered players in which the player that
\* registered last writes one complete ANSWER line, the canonical answer of
\* question 1, while the collection window of question 1 is open, and nobody
\* writes anything else or leaves.
TimelyAnswer ==
    /\ pc = "collect"
    /\ round = 1
    /\ ~expired
    /\ nsent = 0
    /\ PeerWrite(Len(clients), <<"ANSWER", canon>>)

NextEndToEnd ==
    \/ \E i \in DOMAIN NameSeq : AcceptHI(FirstMsg("HI", NameSeq[i]))
    \/ Ready
    \/ QuestionOpen
    \/ TimelyAnswer
    \/ DeadlinePass
    \/ LoopExpire
    \/ Select
    \/ NextSock
    \/ EndFor
    \/ OnAnswer
    \/ GraceWindow
    \/ EndRound
    \/ Final

SpecEndToEnd == Init /\ [][NextEndToEnd]_vars

(* ---------------- the game with a running server ---------------- *)

\* a step of main() from READY on: the process runs, and its clock advances
\* while it waits
ServerNext ==
    \/ Ready
    \/ QuestionOpen
    \/ DeadlinePass
    \/ LoopExpire
    \/ Select
    \/ NextSock
    \/ EndFor
    \/ RecvMore
    \/ RecvTimeout
    \/ OnDisconnected
    \/ OnAnswer
    \/ OnIgnored
    \/ GraceWindow
    \/ EndRound
    \/ Final

\* The game in which the server process is never suspended for ever; nothing
\* is assumed of the peers.
SpecLive == Spec /\ WF_vars(ServerNext)

(* ---------------- the auto-mode client against the evaluator ---------------- *)

\* str(n) of an int
str_int(n) == IF n < 0 THEN <<"-">> \o str_nat(0 - n) ELSE str_nat(n)

\* re.findall(r"[0-9]+|[+\-*/]", expr) followed by
\* `int(t) if t.isdigit() else t`: the runs of digits as numbers, the four
\* operator characters as they are, anything else skipped
RECURSIVE findall(_)
findall(expr) ==
    LET IsDigit(c) == \E k \in DOMAIN DigitChars : DigitChars[k] = c
        run == CHOOSE n \in 0..Len(expr) :
                   /\ \A i \in 1..n : IsDigit(expr[i])
                   /\ n < Len(expr) => ~IsDigit(expr[n + 1])
    IN  IF expr = <<>> THEN <<>>
        ELSE IF run > 0
        THEN <<Num(int(SubSeq(expr, 1, run)))>> \o findall(SubSeq(expr, run + 1, Len(expr)))
        ELSE IF Head(expr) \in Ops THEN <<Op(Head(expr))>> \o findall(Tail(expr))
        ELSE findall(Tail(expr))

\* server.py lines 255-277: correct_answer for the payload short_q.  The
\* minus sign U+2212 that solve_math writes is "~".
correct_answer(qtype, short_q) ==
    IF qtype = "Mathematics"
    THEN LET r == solve_math(findall(replace(short_q, "~", <<"-">>)))
         IN  (IF r.minus THEN <<"~">> ELSE <<>>) \o str_nat(r.digits)
    ELSE IF qtype = "Roman Numerals" THEN str_int(roman_total(short_q))
    ELSE IF qtype = "Usable IP Addresses of a Subnet" THEN usable_answer(short_q)
    ELSE netbc_answer(short_q)

\* client.py lines 80-99: solve_math of the client, the same two loops and
\* str(res) with its ASCII minus
client_solve_math(expr) ==
    LET vals == findall(strip(replace(expr, "~", <<"-">>)))
        v == MulDivPass(vals, 0)
    IN  IF vals = <<>> THEN <<>> ELSE str_int(AddSubPass(v, 1, v[1].v))

\* client.py lines 101-108: roman_to_int, the same loop over _ROMAN
roman_to_int(s) ==
    LET t == strip(upper(s))
    IN  str_int(RomanLoop(t, Len(t), 0, 0))

\* client.py lines 110-116: parse_cidr with ip_to_int
parse_cidr(cidr_text) ==
    LET parts == split(cidr_text, "/")
        ip == split(parts[1], ".")
    IN  [ipi |-> bor(bor(bor(shl(bits(int(ip[1])), 24), shl(bits(int(ip[2])), 16)),
                         shl(bits(int(ip[3])), 8)), bits(int(ip[4]))),
         p |-> int(parts[2])]

\* client.py lines 118-119
usable_count(prefix) ==
    IF prefix >= 31 THEN str_nat(0)
    ELSE str_bits(minus(shl(bits(1), 32 - prefix), bits(2)))

\* client.py lines 121-126, with int_to_ip of line 111
net_and_broadcast(cidr_text) ==
    LET pc_ == parse_cidr(cidr_text)
        mask == band(shl(xFFFFFFFF, 32 - pc_.p), xFFFFFFFF)
        net == band(pc_.ipi, mask)
        b == bor(net, band(bnot(mask), xFFFFFFFF))
    IN  toip(net) \o <<" ", "a", "n", "d", " ">> \o toip(b)

\* client.py lines 128-135
auto_answer(qtype, short_q) ==
    IF qtype = "Mathematics" THEN client_solve_math(short_q)
    ELSE IF qtype = "Roman Numerals" THEN roman_to_int(short_q)
    ELSE IF qtype = "Usable IP Addresses of a Subnet"
    THEN usable_count(parse_cidr(short_q).p)
    ELSE IF qtype = "Network and Broadcast Address of a Subnet"
    THEN net_and_broadcast(short_q)
    ELSE <<>>

\* the operands of the generated expressions (of 1..120)
OperandVals == {1, 9, 90, 120}

\* What the four generators draw at random (questions.py lines 31-38, 67, 79-80
\* and 90-91): the operands and operators of an expression with an operand
\* of 90 or more, the number behind a numeral, the octets and the prefix.
Draws ==
    UNION {{[qtype |-> "Mathematics", nums |-> n, ops |-> o] :
               n \in {m \in [1..k -> OperandVals] : \E i \in 1..k : m[i] >= 90},
               o \in [1..(k - 1) -> {"+", "-"}]} : k \in 2..MaxTerms}
    \cup {[qtype |-> "Roman Numerals", nums |-> <<n>>, ops |-> <<>>] : n \in 2..MaxRoman}
    \cup {[qtype |-> q, nums |-> <<a, b, c, d, p>>, ops |-> <<>>] :
             q \in {"Usable IP Addresses of a Subnet",
                    "Network and Broadcast Address of a Subnet"},
             a \in OctetVals, b \in OctetVals, c \in OctetVals, d \in OctetVals,
             p \in 0..MaxPrefix}

\* questions.py lines 39-44: " ".join(parts), from operand i on
RECURSIVE join(_, _, _)
join(nums, ops, i) ==
    str_nat(nums[i]) \o (IF i <= Len(ops)
                         THEN <<" ", ops[i], " ">> \o join(nums, ops, i + 1)
                         ELSE <<>>)

\* the payload short_q of lines 189-196 for a draw
short_question(draw) ==
    IF draw.qtype = "Mathematics" THEN join(draw.nums, draw.ops, 1)
    ELSE IF draw.qtype = "Roman Numerals" THEN int_to_roman(draw.nums[1])
    ELSE cidr(draw.nums[1], draw.nums[2], draw.nums[3], draw.nums[4], draw.nums[5])

InitAuto ==
    /\ InitGame
    /\ fn = "auto"
    /\ arg \in Draws
    /\ res = [short_q |-> <<>>, answer |-> <<>>, verdict |-> Pending]

\* the server sends the QUESTION of the draw
ApplyQuestion ==
    /\ fn = "auto"
    /\ res.short_q = <<>>
    /\ res' = [res EXCEPT !.short_q = short_question(arg)]
    /\ UNCHANGED <<gamevars, fn, arg>>

\* client.py lines 267-270: the auto-mode client answers it
ApplyAutoAnswer ==
    /\ fn = "auto"
    /\ res.short_q # <<>>
    /\ res.answer = <<>>
    /\ res' = [res EXCEPT !.answer = auto_answer(arg.qtype, res.short_q)]
    /\ UNCHANGED <<gamevars, fn, arg>>

\* server.py lines 249-290: the server judges the ANSWER
ApplyEvaluate ==
    /\ fn = "auto"
    /\ res.answer # <<>>
    /\ res.verdict = Pending
    /\ res' = [res EXCEPT !.verdict = Judge(arg.qtype, res.answer,
                                            correct_answer(arg.qtype, res.short_q))]
    /\ UNCHANGED <<gamevars, fn, arg>>

NextAuto ==
    \/ ApplyQuestion
    \/ ApplyAutoAnswer
    \/ ApplyEvaluate

SpecAuto == InitAuto /\ [][NextAuto]_vars

(* ---------------- the game with client.py peers ---------------- *)

\* iter_messages of client.py: the next message of the connection that
\* run_client has not handled yet.  A peer that is up has been delivered
\* every message of the log: sendall() does not raise while the peer is up,
\* and the server sends nothing after it has closed a socket of such a peer.
NextMessage(p) == sent[p][seen[p] + 1]

\* one turn of `for msg in iter_messages(s)` is possible for peer p
HasMessage(p) ==
    /\ p \in Idx
    /\ peerUp[p]
    /\ seen[p] < Len(sent[p])

\* send_json of client.py: sendall() with its exception swallowed; the line
\* reaches the server while the server holds the socket
client_send_json(p, piece) ==
    IF sockOpen[p] THEN [sockbuf EXCEPT ![p] = Append(@, piece)] ELSE sockbuf

\* s.shutdown(); s.close(): the FIN queues behind the data already written
client_close(p) ==
    IF sockOpen[p] THEN [sockbuf EXCEPT ![p] = Append(@, Piece("EOF", 0, 0, FALSE))]
    ELSE sockbuf

\* run_client lines 234-270, auto mode: a QUESTION is answered with
\* auto_answer(qtype, short_q), the canonical answer of that question; for a
\* QUESTION of an earlier round it is some answer.
ClientQuestion(p) ==
    /\ HasMessage(p)
    /\ NextMessage(p).t = "QUESTION"
    /\ \E a \in IF NextMessage(p).r = round THEN {canon} ELSE AnswerVals :
           sockbuf' = client_send_json(p, Piece("ANSWER", a, round, expired))
    /\ nsent' = nsent + 1
    /\ seen' = [seen EXCEPT ![p] = @ + 1]
    /\ UNCHANGED fnvars
    /\ UNCHANGED <<pc, clients, sockOpen, peerUp, midLine, rejects, round, canon, expired,
                   answered, loopvars, outvars, histvars>>

\* run_client lines 229-232 and 272-280: READY, RESULT and LEADERBOARD are
\* printed
ClientPrint(p) ==
    /\ HasMessage(p)
    /\ NextMessage(p).t \in {"READY", "RESULT", "LEADERBOARD"}
    /\ seen' = [seen EXCEPT ![p] = @ + 1]
    /\ UNCHANGED fnvars
    /\ UNCHANGED <<pc, clients, sockOpen, netvars, rejects, round, canon, expired,
                   answered, loopvars, outvars, histvars>>

\* run_client lines 282-292: on BYE the socket is shut down and closed, and
\* the loop is left
ClientBye(p) ==
    /\ HasMessage(p)
    /\ NextMessage(p).t = "BYE"
    /\ sockbuf' = client_close(p)
    /\ peerUp' = [peerUp EXCEPT ![p] = FALSE]
    /\ seen' = [seen EXCEPT ![p] = @ + 1]
    /\ UNCHANGED fnvars
    /\ UNCHANGED <<pc, clients, sockOpen, midLine, nsent, rejects, round, canon, expired,
                   answered, loopvars, outvars, histvars>>

\* run_client lines 294-307: on FINISHED the socket is shut down and closed,
\* and the process exits
ClientFinished(p) ==
    /\ HasMessage(p)
    /\ NextMessage(p).t = "FINISHED"
    /\ sockbuf' = client_close(p)
    /\ peerUp' = [peerUp EXCEPT ![p] = FALSE]
    /\ seen' = [seen EXCEPT ![p] = @ + 1]
    /\ UNCHANGED fnvars
    /\ UNCHANGED <<pc, clients, sockOpen, midLine, nsent, rejects, round, canon, expired,
                   answered, loopvars, outvars, histvars>>

\* iter_messages lines 52-54 and run_client lines 309-313: recv() returns b""
\* once the server has closed the connection and everything was read; the
\* loop ends and the socket is closed
ClientEof(p) ==
    /\ p \in Idx
    /\ peerUp[p]
    /\ ~sockOpen[p]
    /\ seen[p] = Len(sent[p])
    /\ peerUp' = [peerUp EXCEPT ![p] = FALSE]
    /\ UNCHANGED fnvars
    /\ UNCHANGED <<pc, clients, sockOpen, sockbuf, midLine, nsent, rejects, round, canon,
                   expired, answered, loopvars, outvars, histvars, seen>>

\* the disconnect of one peer: a client process that is killed, or whose
\* link goes down, while every peer is still connected
PeerLeaves(p) ==
    /\ \A q \in Idx : peerUp[q]
    /\ PeerClose(p)

\* the game in which every peer runs client.py in auto mode
NextClients ==
    \/ \E i \in DOMAIN NameSeq : AcceptHI(FirstMsg("HI", NameSeq[i]))
    \/ AcceptTimeout
    \/ Ready
    \/ QuestionOpen
    \/ DeadlinePass
    \/ LoopExpire
    \/ Select
    \/ NextSock
    \/ EndFor
    \/ OnDisconnected
    \/ OnAnswer
    \/ GraceWindow
    \/ EndRound
    \/ Final
    \/ \E p \in Idx : ClientQuestion(p)
    \/ \E p \in Idx : ClientPrint(p)
    \/ \E p \in Idx : ClientBye(p)
    \/ \E p \in Idx : ClientFinished(p)
    \/ \E p \in Idx : ClientEof(p)
    \/ \E p \in Idx : PeerLeaves(p)

SpecClients == Init /\ [][NextClients]_vars

(* ---------------- reading the history ---------------- *)

\* client q was sent a message of type t in round r
Got(q, t, r) == \E i \in 1..Len(sent[q]) : sent[q][i].t = t /\ sent[q][i].r = r

\* how many messages of type t client q was sent
Count(q, t) == Cardinality({i \in 1..Len(sent[q]) : sent[q][i].t = t})

\* a step changes the score of a registered client
ScoreChanged == \E p \in Idx : clients'[p].score # clients[p].score

\* the server is about to take the step that handles the message recv_json
\* returned
Handling == InRecv /\ RecvStep.done

(* ---------------- C1 ---------------- *)

\* C1: a disconnect during round k < n that leaves another client active does
\* not end the game: once the game is over, every client still active was sent
\* the QUESTION of every configured round k+1..n.
C1_GameGoesOnAfterDisconnect ==
    pc = "done" =>
        \A p \in Idx : \A q \in Active :
            (leftIn[p] >= 1 /\ leftIn[p] < NumRounds) =>
                \A j \in (leftIn[p] + 1)..NumRounds : Got(q, "QUESTION", j)

(* ---------------- C2 ---------------- *)

\* C2: round sealing.  No score changes on account of an ANSWER that reached
\* the server after the deadline of the round in progress: whenever a score
\* changes, the server is handling a message that was complete at the server
\* before that deadline.
C2_LateAnswerNeverScores ==
    [][ ScoreChanged =>
            (Handling /\ ~(RecvStep.msg.rnd = round /\ RecvStep.msg.late)) ]_vars

(* ---------------- C3 ---------------- *)

\* C3: an ANSWER that was still unread when its round was sealed is dropped:
\* when the server comes to it in a later round it sends no RESULT and
\* changes no score.
C3_StaleAnswerDropped ==
    [][ (Handling /\ RecvStep.msg.k = "ANSWER" /\ RecvStep.msg.rnd < round
              /\ pc' = "dispatch") =>
            (sent' = sent /\ ~ScoreChanged /\ sockOpen' = sockOpen) ]_vars

(* ---------------- C4 ---------------- *)

\* a step appends the one message obj to the log of client q
Appends(q, obj) == sent'[q] = Append(sent[q], obj)

\* C4: the step in which a zero-byte read takes the last active client off
\* the roster sends FINISHED to every registered client, those that left
\* before included, and ends the server in the same round; from there no
\* further step is taken, so no QUESTION, RESULT or LEADERBOARD follows.
C4_LastLeaverEndsGame ==
    [][ /\ pc # "early"
        /\ (Handling /\ RecvStep.eof /\ Active = {rsock} /\ pc' # "recv") =>
              /\ Active' = {}
              /\ pc' = "early"
              /\ round' = round
              /\ \A q \in Idx : Appends(q, Finished(round, early_text)) ]_vars

\* the last active client went by a zero-byte read after another had left
C4_Witness ==
    /\ pc = "early"
    /\ Len(clients) = NumPlayers
    /\ \A p \in Idx : leftBy[p] = "eof" /\ Count(p, "FINISHED") = 1
    /\ \E p \in Idx : Count(p, "BYE") = 1

(* ---------------- C5 ---------------- *)

\* C5: a departure that leaves another client active does not touch the round
\* in progress (same round, question, deadline state, answered set and
\* scores; the loop over r goes on), and in a round in which a client has
\* left a correct ANSWER the server handles still earns its sender one point
\* and a RESULT with correct = true.
C5_RoundUnalteredByDeparture ==
    [][ /\ (Active' # Active /\ Active' # {} /\ pc = "recv") =>
              /\ pc' = "dispatch"
              /\ <<round, canon, expired, answered, rlist>>' =
                     <<round, canon, expired, answered, rlist>>
              /\ ~ScoreChanged
        /\ (Handling /\ RecvStep.msg.k = "ANSWER" /\ IsCorrect(RecvStep.msg.a)
              /\ (\E p \in Idx : leftIn[p] = round) /\ pc' # "recv") =>
              /\ clients'[rsock].score = clients[rsock].score + 1
              /\ sent'[rsock] = Append(sent[rsock], Msg("RESULT", round, TRUE)) ]_vars

\* a client left in the round in progress and, after the BYE, another one
\* got RESULT correct = true in that round
C5_Witness ==
    \E p, q \in Idx :
        /\ leftIn[p] = round /\ clients[q].active
        /\ \E i, j \in 1..Len(sent[q]) :
              /\ i < j
              /\ sent[q][i] = Msg("BYE", round, FALSE)
              /\ sent[q][j] = Msg("RESULT", round, TRUE)
        /\ clients[q].score >= 1

(* ---------------- C6 ---------------- *)

\* C6: a leave notification written by the peer (message_type DISCONNECTED on
\* this wire) is handled as a zero-byte read is: the sender is marked
\* inactive and its socket closed; the others get BYE and the loop goes on,
\* or, when nobody is left, every client gets FINISHED and the server ends.
C6_ExplicitLeaveIsDisconnect ==
    [][ (Handling /\ RecvStep.msg.k = "DISCONNECTED" /\ pc' # "recv") =>
            /\ ~clients'[rsock].active
            /\ ~sockOpen'[rsock]
            /\ leftIn'[rsock] = round
            /\ IF Active = {rsock}
               THEN pc' = "early" /\ \A q \in Idx : Appends(q, Finished(round, early_text))
               ELSE /\ pc' = "dispatch"
                    /\ \A q \in Active \ {rsock} : Appends(q, Msg("BYE", round, FALSE)) ]_vars

\* both clients left by a written notification, the second ending the game
C6_Witness ==
    /\ pc = "early"
    /\ Len(clients) = NumPlayers
    /\ \A p \in Idx : leftBy[p] = "msg" /\ ~sockOpen[p] /\ Count(p, "FINISHED") = 1

(* ---------------- C7 ---------------- *)

\* C7: a send that fails is a disconnect of that client: while the game runs a
\* client on whose socket a send has failed is inactive, and it is sent no
\* further QUESTION or LEADERBOARD.
C7_SendFailureIsDisconnect ==
    [][ \A p \in Idx :
          /\ (sendFailed'[p] /\ pc' \notin {"done", "early"}) => ~clients'[p].active
          /\ sendFailed[p] =>
                (sent'[p] = sent[p]
                   \/ sent'[p][Len(sent'[p])].t \notin {"QUESTION", "LEADERBOARD"}) ]_vars

(* ---------------- C8 ---------------- *)

\* C8: the collection window closes as soon as every active client has
\* answered: at the top of the loop with everyone in answered, the server can
\* leave the loop whether or not the deadline has passed.
C8_ClosesWhenAllAnswered ==
    (pc = "collect" /\ Active # {} /\ Active \subseteq answered) => ENABLED LoopExpire

(* ---------------- C9 ---------------- *)

\* C9: the step that ends a game with a client still active sends each active
\* client one FINISHED, its only one and its last message, whose text ranks
\* every registered client and names at least one winner, and closes every
\* socket; no step follows it.
C9_FinishedOnceThenClosed ==
    [][ /\ pc # "done"
        /\ (pc' = "done" /\ Active # {}) =>
              /\ \A p \in Active :
                    /\ Count(p, "FINISHED") = 0
                    /\ \E text \in {final_text(clients)} :
                          /\ Appends(p, Finished(round, text))
                          /\ text.kind = "standings"
                          /\ {text.lines[i].username : i \in DOMAIN text.lines}
                                = {clients[q].username : q \in Idx}
                          /\ Len(text.lines) = Len(clients)
                          /\ Len(text.winners) >= 1
              /\ \A p \in Idx : ~sockOpen'[p] ]_vars

\* a game ended with one client active and one gone
C9_Witness ==
    /\ pc = "done"
    /\ \E p \in Active : Count(p, "FINISHED") = 1 /\ sent[p][Len(sent[p])].t = "FINISHED"
    /\ \E q \in Idx : ~clients[q].active
    /\ \A p \in Idx : ~sockOpen[p]

(* ---------------- C10 ---------------- *)

\* C10: every round that was played ended with a LEADERBOARD to the clients
\* still active: at the end of the game each active client has a LEADERBOARD
\* of every round, the last one included.
C10_LeaderboardEveryRound ==
    pc = "done" => \A p \in Active : \A k \in 1..round : Got(p, "LEADERBOARD", k)

(* ---------------- C11 ---------------- *)

\* the scores of the roster that are strictly higher than v
Higher(cl, v) == {q \in DOMAIN cl : cl[q].score > v}

\* every line of text carries the competition rank of its score in roster cl
CompetitionRanked(cl, text) ==
    \A i \in DOMAIN text.lines :
        /\ text.lines[i].rank = 1 + Cardinality(Higher(cl, text.lines[i].score))
        /\ \A j \in DOMAIN text.lines :
              text.lines[i].score = text.lines[j].score
                  => text.lines[i].rank = text.lines[j].rank

\* C11: competition ranking.  In the leaderboard and in the final standings of
\* every roster, equal scores carry equal ranks and the rank of a line is 1
\* plus the number of clients with a strictly higher score.
C11_CompetitionRanking ==
    fn = "rank" => CompetitionRanked(arg, res.lb) /\ CompetitionRanked(arg, res.fin)

\* both texts of a roster of three with a tie at the top: ranks 1, 1, 3
C11_Witness ==
    /\ fn = "rank"
    /\ Len(res.lb.lines) = 3 /\ Len(res.fin.lines) = 3
    /\ \A text \in {res.lb, res.fin} :
          <<text.lines[1].rank, text.lines[2].rank, text.lines[3].rank>> = <<1, 1, 3>>

(* ---------------- C12 ---------------- *)

\* text has one line for every client of roster cl, with its score
ListsEveryone(cl, text) ==
    /\ Len(text.lines) = Len(cl)
    /\ \A i \in DOMAIN NameSeq : \A v \in 0..MaxScore :
          Cardinality({k \in DOMAIN text.lines :
                          text.lines[k].username = NameSeq[i] /\ text.lines[k].score = v})
            = Cardinality({q \in DOMAIN cl :
                          cl[q].username = NameSeq[i] /\ cl[q].score = v})

\* the lines run by descending score, then by ascending name
Ordered(text) ==
    \A i, j \in DOMAIN text.lines :
        i < j =>
            \/ text.lines[i].score > text.lines[j].score
            \/ /\ text.lines[i].score = text.lines[j].score
               /\ NamePos(text.lines[i].username) <= NamePos(text.lines[j].username)

\* C12: the leaderboard and the final standings each list every registered
\* client once, those that left included, by descending score and then
\* ascending name, and the two are computed by the same rule: on the same
\* roster they have the same lines.
C12_EveryoneListedInOrder ==
    fn = "rank" =>
        /\ res.lb # NoBody => ListsEveryone(arg, res.lb) /\ Ordered(res.lb)
        /\ res.fin # NoBody => ListsEveryone(arg, res.fin) /\ Ordered(res.fin)
        /\ (res.lb # NoBody /\ res.fin # NoBody) => res.lb.lines = res.fin.lines

\* both texts of a roster registered in the opposite of the listed order,
\* whose first client left with the lowest score
C12_Witness ==
    /\ fn = "rank"
    /\ res.lb # NoBody /\ res.fin # NoBody
    /\ Len(arg) = 3
    /\ ~arg[1].active
    /\ arg[1].score < arg[2].score
    /\ arg[2].score = arg[3].score
    /\ NamePos(arg[2].username) > NamePos(arg[3].username)
    /\ res.lb.lines[3].username = arg[1].username

(* ---------------- C13 ---------------- *)

\* the clients of roster cl no other client of which has a higher score
Top(cl) == {q \in DOMAIN cl : Higher(cl, cl[q].score) = {}}

\* C13: the winners named in the final standings are the clients holding the
\* maximum score over the whole roster: each of them once, nobody else, and
\* never nobody.
C13_WinnersHoldTopScore ==
    (fn = "rank" /\ res.fin # NoBody) =>
        /\ Len(res.fin.winners) = Cardinality(Top(arg))
        /\ Len(res.fin.winners) >= 1
        /\ \A i \in DOMAIN NameSeq :
              Cardinality({k \in DOMAIN res.fin.winners : res.fin.winners[k] = NameSeq[i]})
                = Cardinality({q \in Top(arg) : arg[q].username = NameSeq[i]})

\* final standings with two winners tied above a third client, one of the
\* winners having left
C13_Witness ==
    /\ fn = "rank"
    /\ Len(arg) = 3
    /\ Len(res.fin.winners) = 2
    /\ res.fin.winners[1] # res.fin.winners[2]
    /\ \E q \in Top(arg) : ~arg[q].active

(* ---------------- C14 ---------------- *)

\* C14: a score starts at 0 at registration, is never negative and never
\* goes down; a step changes it only by +1, for the client whose ANSWER the
\* server is handling, and only when that answer is not empty and equals the
\* canonical answer of the question in progress.
C14_ScoreOnlyGrowsByCorrectAnswer ==
    [][ \A p \in DOMAIN clients' :
          /\ clients'[p].score >= 0
          /\ p \notin Idx => clients'[p].score = 0
          /\ p \in Idx =>
                \/ clients'[p].score = clients[p].score
                \/ /\ clients'[p].score = clients[p].score + 1
                   /\ Handling
                   /\ rsock = p
                   /\ RecvStep.msg.k = "ANSWER"
                   /\ RecvStep.msg.a # EmptyAns
                   /\ RecvStep.msg.a = canon ]_vars

\* a game ended in which a client earned a point in each of two rounds
C14_Witness ==
    /\ pc = "done"
    /\ \E p \in Idx :
          /\ clients[p].score = 2
          /\ \A k \in 1..2 : \E i \in DOMAIN sent[p] : sent[p][i] = Msg("RESULT", k, TRUE)

(* ---------------- C15 ---------------- *)

\* a step appends READY to the log of client p
ReadyTo(p) == p \in Idx /\ sent'[p] = Append(sent[p], Msg("READY", 0, FALSE))

\* C15: the roster grows only in the lobby, by one client whose first message
\* was a HI with a name that is not empty once trimmed, and never beyond the
\* quota; the server leaves the lobby for the game exactly in the step that
\* finds the quota met, and that step, and no other, sends READY, once, to
\* every registered client; after it the roster is fixed.
C15_ReadyExactlyAtQuota ==
    [][ /\ Len(clients') <= NumPlayers
        /\ Len(clients') # Len(clients) =>
              /\ pc = "lobby" /\ pc' = "lobby"
              /\ Len(clients) < NumPlayers
              /\ \E m \in FirstMsgs :
                    /\ m.k = "HI"
                    /\ clients' = Append(clients, [username |-> strip(m.username),
                                                   score |-> 0, active |-> TRUE])
              /\ LET n == clients'[Len(clients')].username
                 IN  n # <<>> /\ Head(n) \notin Whitespace /\ n[Len(n)] \notin Whitespace
        /\ (pc = "lobby" /\ Len(clients) = NumPlayers) =>
              /\ pc' = "question"
              /\ \A p \in Idx : ReadyTo(p) /\ Count(p, "READY") = 0
        /\ (\E p \in Idx : Len(sent'[p]) > Len(sent[p])
                              /\ sent'[p][Len(sent'[p])].t = "READY") =>
              (pc = "lobby" /\ Len(clients) = NumPlayers)
        /\ (pc = "lobby" /\ pc' = "question") => Len(clients) = NumPlayers
        /\ pc # "lobby" => Len(clients') = Len(clients) ]_vars

\* the quota is met and READY, and nothing else, has gone to every client of
\* the roster
C15_Witness ==
    /\ pc = "question" /\ round = 0
    /\ Len(clients) = NumPlayers
    /\ \A p \in Idx : sent[p] = <<Msg("READY", 0, FALSE)>>
    /\ \A p \in Idx : clients[p].username \in Names

(* ---------------- C16 ---------------- *)

\* C16: a connection of the lobby whose first message is no valid handshake
\* is dropped and the server stays in the lobby: a step of the lobby that
\* registers nobody while the quota is open, other than the accept timeout,
\* leaves the server waiting for players.
C16_BadHandshakeDropped ==
    [][ (pc = "lobby" /\ Len(clients) < NumPlayers /\ clients' = clients
              /\ pc' # "shutdown") => pc' = "lobby" ]_vars

(* ---------------- C17 ---------------- *)

\* the log of one client runs forward: READY first and once, rounds that
\* never go back, the QUESTIONs of rounds 1, 2, ... each once and in order,
\* RESULT, BYE and LEADERBOARD only in a round whose QUESTION the client has,
\* and FINISHED last
Forward(log) ==
    /\ \A i \in DOMAIN log :
          /\ (log[i].t = "READY") <=> (i = 1)
          /\ log[i].r \in 0..NumRounds
          /\ log[i].t = "QUESTION" =>
                log[i].r = 1 + Cardinality({j \in 1..(i - 1) : log[j].t = "QUESTION"})
          /\ log[i].t \in {"RESULT", "BYE", "LEADERBOARD"} =>
                \E j \in 1..(i - 1) : log[j].t = "QUESTION" /\ log[j].r = log[i].r
          /\ log[i].t = "FINISHED" => i = Len(log)
    /\ \A i, j \in DOMAIN log : i < j => log[i].r <= log[j].r

\* C17: the game only moves forward: the round index never decreases and
\* never exceeds the configured number, every log only grows, and after
\* every step every client's log runs forward.
C17_OnlyForward ==
    [][ /\ round' \in {round, round + 1}
        /\ round' <= NumRounds
        /\ \A p \in Idx : Len(sent[p]) <= Len(sent'[p])
                            /\ SubSeq(sent'[p], 1, Len(sent[p])) = sent[p]
        /\ \A p \in DOMAIN sent' : Forward(sent'[p]) ]_vars

\* a client's log of a full game: READY, both QUESTIONs, a RESULT, a BYE,
\* a LEADERBOARD and FINISHED
C17_Witness ==
    \E p \in Idx :
        /\ pc = "done"
        /\ \A t \in {"READY", "RESULT", "BYE", "LEADERBOARD", "FINISHED"} : Count(p, t) >= 1
        /\ Count(p, "QUESTION") = NumRounds

(* ---------------- C18 ---------------- *)

\* C18: the step that handles an ANSWER read from a client sends that client
\* exactly one RESULT, whose flag is true when the step adds 1 to the
\* client's score and false when it leaves the score as it is.
C18_EveryAnswerGetsResult ==
    [][ (Handling /\ RecvStep.msg.k = "ANSWER" /\ pc' # "recv") =>
            \/ /\ clients'[rsock].score = clients[rsock].score + 1
               /\ sent'[rsock] = Append(sent[rsock], Msg("RESULT", round, TRUE))
            \/ /\ clients'[rsock].score = clients[rsock].score
               /\ sent'[rsock] = Append(sent[rsock], Msg("RESULT", round, FALSE)) ]_vars

(* ---------------- C19 ---------------- *)

\* C19: whatever string an ANSWER carries, the judge gives the point only
\* when the normalized answer equals the normalized canonical answer; an
\* answer that is empty or all blanks gets no point and is never judged
\* correct; and the collection loop always goes on.
C19_BadAnswerIsIncorrect ==
    (fn = "judge" /\ res # Pending) =>
        /\ res.gain \in {0, 1}
        /\ res.gain = 1 =>
              normalize_answer(arg.qtype, strip(arg.answer))
                  = normalize_answer(arg.qtype, arg.correct_answer)
        /\ (\A i \in DOMAIN arg.answer : arg.answer[i] = " ") =>
              (res.gain = 0 /\ ~res.correct)
        /\ res.correct <=> res.gain = 1
        /\ res.next = "continue"

\* the judge has dealt with an answer of blanks only
C19_Witness ==
    /\ fn = "judge"
    /\ res # Pending
    /\ arg.answer = <<" ", " ">>
    /\ res.gain = 0

(* ---------------- C20 ---------------- *)

\* strict folding from the left with no precedence: / is floor division and
\* a division by zero gives 0
RECURSIVE FoldLeft(_, _, _)
FoldLeft(vals, i, acc) ==
    IF i > Len(vals) THEN acc
    ELSE FoldLeft(vals, i + 2,
                  IF vals[i].k = "+" THEN acc + vals[i + 1].v
                  ELSE IF vals[i].k = "-" THEN acc - vals[i + 1].v
                  ELSE IF vals[i].k = "*" THEN acc * vals[i + 1].v
                  ELSE IF vals[i + 1].v = 0 THEN 0
                  ELSE acc \div vals[i + 1].v)

\* C20: for every payload a0 op1 a1 ... solve_math returns the value of the
\* strict left-to-right folding.
C20_SolveMathFoldsLeftToRight ==
    (fn = "solve_math" /\ res.applied) =>
        res.answer = Rendered(FoldLeft(arg, 2, arg[1].v))

(* ---------------- C21 ---------------- *)

\* C21: Roman-numeral round trip: for every n in 1..3999, the server's
\* decoding of int_to_roman(n) is n.
C21_RomanRoundTrip ==
    (fn = "roman" /\ res.stage = "decoded") => res.total = arg

\* the round trip of a number written with subtractive pairs (MCMXCIV)
C21_Witness ==
    /\ fn = "roman"
    /\ res.stage = "decoded"
    /\ arg = 1994
    /\ res.short_q = <<"M", "C", "M", "X", "C", "I", "V">>
    /\ res.total = 1994

(* ---------------- C22 ---------------- *)

\* 2^k - 2 in decimal, for 1 <= k <= 32
PowMinus2(k) ==
    IF k = 32 THEN <<"4", "2", "9", "4", "9", "6", "7", "2", "9", "4">>
    ELSE IF k = 31 THEN <<"2", "1", "4", "7", "4", "8", "3", "6", "4", "6">>
    ELSE str_nat(2 ^ k - 2)

\* C22: the canonical answer of a usable-addresses question A.B.C.D/prefix is
\* 2^(32-prefix) - 2 when prefix < 31 and 0 when prefix is 31 or 32, whatever
\* the address.
C22_UsableCount ==
    (fn = "subnet" /\ res.usable # <<>>) =>
        res.usable = IF arg.prefix < 31 THEN PowMinus2(32 - arg.prefix) ELSE <<"0">>

\* the case the claim names: /24 gives 254, on an address with host bits set
C22_Witness ==
    /\ fn = "subnet"
    /\ arg.prefix = 24
    /\ arg.d = 255
    /\ res.short_q = <<"1", "7", "2", ".", "0", ".", "0", ".", "2", "5", "5", "/", "2", "4">>
    /\ res.usable = <<"2", "5", "4">>

(* ---------------- C23 ---------------- *)

\* how many of the low 32 - p bits of an address fall into its octet number
\* pos (1 is the first octet)
HostBits(pos, p) ==
    LET h == (32 - p) - 8 * (4 - pos)
    IN  IF h < 0 THEN 0 ELSE IF h > 8 THEN 8 ELSE h

\* an octet with its h low bits cleared, and with them set
Cleared(o, h) == (o \div (2 ^ h)) * (2 ^ h)
Filled(o, h) == Cleared(o, h) + (2 ^ h) - 1

\* four octets in dotted decimal
Dotted(o) ==
    str_nat(o[1]) \o <<".">> \o str_nat(o[2]) \o <<".">> \o str_nat(o[3]) \o <<".">>
                  \o str_nat(o[4])

\* C23: the canonical answer of a network-and-broadcast question
\* A.B.C.D/prefix, for any prefix in 0..32, is "<network> and <broadcast>":
\* the address with its low 32 - prefix bits cleared, and with them set, each
\* as four octets in 0..255.
C23_NetworkAndBroadcast ==
    (fn = "subnet" /\ res.netbc # <<>>) =>
        LET o == <<arg.a, arg.b, arg.c, arg.d>>
            net == [pos \in 1..4 |-> Cleared(o[pos], HostBits(pos, arg.prefix))]
            bc == [pos \in 1..4 |-> Filled(o[pos], HostBits(pos, arg.prefix))]
        IN  /\ \A pos \in 1..4 : net[pos] \in 0..255 /\ bc[pos] \in 0..255
            /\ res.netbc = Dotted(net) \o <<" ", "a", "n", "d", " ">> \o Dotted(bc)

\* a prefix that cuts an octet in two: 172.172.172.255/20 gives
\* 172.172.160.0 and 172.172.175.255
C23_Witness ==
    /\ fn = "subnet"
    /\ arg = [a |-> 172, b |-> 172, c |-> 172, d |-> 255, prefix |-> 20]
    /\ res.netbc = <<"1", "7", "2", ".", "1", "7", "2", ".", "1", "6", "0", ".", "0",
                     " ", "a", "n", "d", " ",
                     "1", "7", "2", ".", "1", "7", "2", ".", "1", "7", "5", ".", "2", "5", "5">>

(* ---------------- C24 ---------------- *)

\* C24: end to end: when player A submits the canonical answer of the only
\* question it answers before the deadline and the other players send
\* nothing, A is sent RESULT with correct = true, the others are sent no
\* RESULT, and the final standings rank A first with score 1, strictly above
\* the others, who have score 0.
C24_EndToEnd ==
    (pc = "done" /\ nsent = 1) =>
        LET A == Len(clients)
            fin == sent[A][Len(sent[A])]
        IN  /\ Count(A, "RESULT") = 1
            /\ \E i \in 1..Len(sent[A]) : sent[A][i] = Msg("RESULT", 1, TRUE)
            /\ \A B \in Idx \ {A} : Count(B, "RESULT") = 0
            /\ \A q \in Idx : sent[q][Len(sent[q])] = fin
            /\ fin.t = "FINISHED"
            /\ fin.body.lines[1] = [rank |-> 1, username |-> clients[A].username,
                                    score |-> 1, plural |-> FALSE]
            /\ \A idx \in 2..Len(clients) :
                   /\ fin.body.lines[idx].score = 0
                   /\ fin.body.lines[idx].rank = 2
            /\ fin.body.winners = <<clients[A].username>>

\* the game is over, and the player whose name sorts after the other's has
\* answered
C24_Witness ==
    /\ pc = "done"
    /\ nsent = 1
    /\ Len(clients) >= 2
    /\ clients[1].username = NameSeq[1]
    /\ clients[Len(clients)].username = NameSeq[2]
    /\ clients[Len(clients)].score = 1

(* ---------------- C25 ---------------- *)

\* main() has returned after the FINISHED broadcast, at the end of the game or
\* at the early exit
Terminated ==
    /\ pc \in {"done", "early"}
    /\ \A q \in Idx : Count(q, "FINISHED") = 1

SomeoneGone ==
    /\ pc \notin {"lobby", "crashed", "shutdown"}
    /\ \E p \in Idx : ~peerUp[p]

\* every client still connected has been sent a BYE or a FINISHED
SurvivorsTold ==
    \A q \in Idx : peerUp[q] => (Count(q, "BYE") > 0 \/ Count(q, "FINISHED") > 0)

\* C26: when a client's connection is gone mid-game while another client
\* stays connected, the server eventually sends the survivor a BYE or a
\* FINISHED, in whatever phase the connection went.  (A closed connection
\* stays closed and a message sent stays sent, so the survivors are told one
\* by one exactly when a state is reached in which all of them have been.)
C26_SurvivorIsTold == SomeoneGone ~> SurvivorsTold

\* the disconnect the server never noticed: the client that went is still
\* marked active, and the survivor, never sent a BYE, has its FINISHED
C26_Witness ==
    \E p, q \in Idx :
        /\ ~peerUp[p] /\ clients[p].active
        /\ peerUp[q]
        /\ Count(q, "BYE") = 0
        /\ Count(q, "FINISHED") = 1

(* ---------------- C27 ---------------- *)

\* C27: for every question the server can generate, of each of the four
\* kinds, the answer of the auto-mode client is judged correct by the server
\* after normalization, negative results of arithmetic included.
C27_AutoAnswerIsCorrect ==
    (fn = "auto" /\ res.short_q # <<>>) =>
        /\ res.answer # <<>> \/ res.verdict = Pending
        /\ res.verdict # Pending =>
               /\ res.verdict.result = "RESULT"
               /\ res.verdict.correct
               /\ res.verdict.gain = 1

\* a negative result: "1 - 90" is answered "-89" by the client, with the ASCII
\* minus, and judged correct
C27_Witness ==
    /\ fn = "auto"
    /\ res.short_q = <<"1", " ", "-", " ", "9", "0">>
    /\ res.answer = <<"-", "8", "9">>
    /\ res.verdict.correct

(* ---------------- C28 ---------------- *)

\* C28: a malformed line does not desynchronize a peer's stream: a valid
\* ANSWER that follows it, in the same read or in a later one, is still
\* evaluated.  Stated of the step in which recv_json gives up and discards
\* buf: buf never holds a valid ANSWER behind a malformed line.
C28_AnswerAfterBadLineIsJudged ==
    [][RecvTimeout =>
          ~\E i, j \in DOMAIN rbuf :
               /\ i < j
               /\ rbuf[i].k = "BAD"
               /\ rbuf[j].k = "ANSWER"
               /\ rbuf[j].a # EmptyAns]_vars

(* ---------------- C29 ---------------- *)

\* C29: the receive path tolerates back-to-back objects and partial reads:
\* every complete message is delivered once, none is silently lost.  Stated
\* of the step in which recv_json gives up and discards buf: when no
\* malformed line is involved, buf holds nothing but the beginning of a line
\* whose end has not arrived.
C29_NoMessageLost ==
    [][RecvTimeout =>
          ((\A i \in DOMAIN rbuf : rbuf[i].k # "BAD")
               => \A i \in DOMAIN rbuf : rbuf[i].k = "FRAG1")]_vars

(* ---------------- C30 ---------------- *)

\* C30: at most one answer per player is scored in each round: a player's
\* score never exceeds the number of rounds opened so far.
C30_OnePointPerRound ==
    \A p \in Idx : clients[p].score <= round

(* ---------------- C31 ---------------- *)

\* C31: a correct ANSWER of the open round that reached an ACTIVE player's
\* socket before the deadline and is still unread when the collection loop
\* ends is read in the grace window and scores one point, before the
\* leaderboard of that round is computed.
C31_GraceWindowScores ==
    [][GraceWindow =>
          \A p \in Active :
              (/\ sockbuf[p] # <<>>
               /\ sockbuf[p][1].k = "ANSWER"
               /\ sockbuf[p][1].a # EmptyAns
               /\ IsCorrect(sockbuf[p][1].a)
               /\ sockbuf[p][1].rnd = round
               /\ ~sockbuf[p][1].late)
                  => clients'[p].score = clients[p].score + 1]_vars

(* ---------------- C32 ---------------- *)

\* C32: among client.py peers the disconnect of one peer makes no other peer
\* leave: a client that closes its connection upon a message it has received
\* does so upon FINISHED, never upon the departure notice BYE.
C32_SurvivorStaysConnected ==
    [][\A p \in Idx :
          (p \in DOMAIN peerUp /\ peerUp[p] /\ ~peerUp'[p] /\ seen'[p] = seen[p] + 1)
              => sent[p][seen'[p]].t = "FINISHED"]_vars

(* ---------------- C33 ---------------- *)

\* recv_json has returned, in a collection window, a message that is neither
\* an ANSWER nor a disconnect: an unknown message_type (a repeated HI is one)
\* or a JSON value that is no object
Ignorable ==
    /\ InRecv
    /\ RecvStep.done
    /\ RecvStep.msg.k \in {"OTHER", "NONOBJ"}

\* C33: a message received in a collection window that is neither an ANSWER
\* nor a disconnect is ignored: the step of the server that takes it changes
\* no score, no liveness flag and not the round, sends nothing, closes no
\* socket, and goes on to the next readable socket.
C33_OtherMessageIgnored ==
    [][(Ignorable /\ pc' # pc) =>
          /\ clients' = clients
          /\ round' = round
          /\ sent' = sent
          /\ sockOpen' = sockOpen
          /\ pc' = "dispatch"
          /\ sockbuf'[rsock] = Tail(sockbuf[rsock])]_vars

\* the server is about to route a JSON value that is no object, sent by a
\* client that has a point
C33_Witness ==
    /\ Ignorable
    /\ RecvStep.msg.k = "NONOBJ"
    /\ clients[rsock].score = 1

(* ---------------- C34 ---------------- *)

\* main() is between READY and the end of the game
InGame == pc \in {"question", "collect", "dispatch", "recv", "grace", "board", "final"}

\* the sockets the server has polled and still has to read, or is reading
Polled == {rlist[i] : i \in DOMAIN rlist} \cup (IF pc = "recv" THEN {rsock} ELSE {})

\* a player is ACTIVE exactly when its socket is not closed, and the sockets
\* of a poll are those of ACTIVE players
ActiveIsOpen ==
    InGame =>
        /\ \A p \in Idx : clients[p].active <=> sockOpen[p]
        /\ \A p \in Readable \cup Polled : p \in Active /\ sockOpen[p]

\* the messages a step adds to the log of client p
Added(p) == {sent'[p][i] : i \in (DOMAIN sent'[p]) \ (DOMAIN sent[p])}

\* LEFT is absorbing
LeftIsAbsorbing ==
    \A p \in Idx :
        ~clients[p].active =>
            /\ ~clients'[p].active
            /\ p \notin {rlist'[i] : i \in DOMAIN rlist'}
            /\ \A m \in Added(p) : m.t \notin {"QUESTION", "LEADERBOARD"}

\* C34: between READY and the end of the game a player is ACTIVE exactly when
\* the server has not closed its socket, every socket of a poll is that of an
\* ACTIVE player and is open, and a player marked LEFT is never ACTIVE again,
\* never polled again and never sent a QUESTION or a LEADERBOARD.
C34_ActiveMeansOpen ==
    [](ActiveIsOpen) /\ [][LeftIsAbsorbing]_vars

\* a player left in round 1; afterwards the other one was polled, answered
\* and got the LEADERBOARD that the first one did not get
C34_Witness ==
    /\ pc = "final"
    /\ round = 1
    /\ \E p, q \in Idx :
          /\ ~clients[p].active /\ ~sockOpen[p]
          /\ clients[q].active /\ sockOpen[q]
          /\ \E i, j, k \in DOMAIN sent[q] :
                /\ i < j /\ j < k
                /\ sent[q][i].t = "BYE"
                /\ sent[q][j].t = "RESULT"
                /\ sent[q][k].t = "LEADERBOARD"
          /\ \A i \in DOMAIN sent[p] : sent[p][i].t # "LEADERBOARD"

(* ---------------- C35 ---------------- *)

\* the RESULT messages with correct=true among the send_json calls on the
\* socket of client p
CorrectResults(p) == {i \in DOMAIN sent[p] : sent[p][i].t = "RESULT" /\ sent[p][i].c}

\* C35: at every point of the game the score of each player equals the
\* number of RESULT messages with correct=true the server has sent to it.
C35_ScoreIsCorrectResults ==
    \A p \in Idx : clients[p].score = Cardinality(CorrectResults(p))

\* a client has been told once that it was wrong and once that it was right
C35_Witness ==
    \E p \in Idx :
        /\ clients[p].score = 1
        /\ \E i, j \in DOMAIN sent[p] :
              /\ sent[p][i].t = "RESULT" /\ ~sent[p][i].c
              /\ sent[p][j].t = "RESULT" /\ sent[p][j].c

(* ---------------- C36 ---------------- *)

\* C36: the server leaves the handshake phase with "No players connected,
\* shutting down" only when no player has been registered: a player that
\* has completed the handshake is not abandoned without READY.
C36_ShutdownOnlyWhenEmpty ==
    pc = "shutdown" => clients = <<>>

====
